---------------------------- MODULE Spec2Model ----------------------------
(***************************************************************************)
(* A model of the Golden Globes tweet pipeline (rhit-kraussja/CS337-       *)
(* Project-1):                                                             *)
(*   - the spike detector            src/.defunct/extract_spikes.py        *)
(*   - the relation extractor        src/candidate_pipeline.py and         *)
(*                                   src/candidate_pipeline_dirty.py       *)
(*   - the consensus voter           src/winners_from_candidates.py        *)
(*                                                                         *)
(* Representation.                                                         *)
(*   A Python dict / Counter is a sequence of [key, n] records in          *)
(*   insertion order (Python dicts iterate in insertion order, and the     *)
(*   order decides ties in sorted() and Counter.most_common()).            *)
(*   A text is a sequence of whitespace-separated tokens; the string it    *)
(*   stands for is the tokens joined by single spaces (Join).              *)
(*   None is the record [k |-> "none"]; JSON scalars are tagged records.   *)
(***************************************************************************)
EXTENDS Integers, Sequences, FiniteSets, TLC

VARIABLES
    pc,              \* the stage the run is at
    \* ---- extract_spikes.py
    tweets,          \* the loaded JSON array
    include_rt,      \* args.include_rt
    hist,            \* build_hist's dict: bucket -> count, in insertion order
    top_k,           \* args.top_k
    peaks,           \* top_bins' result
    window_min,      \* args.window_min
    spans,           \* expand_and_merge's result
    buckets,         \* select_tweets' result: one tweet list per span
    \* ---- winners_from_candidates.py
    variant_map,     \* load_award_map's dict
    seen,            \* how many candidates the tally loop has consumed
    votes,           \* award -> Counter(person -> count), both in insertion order
    total_per_award, \* Counter(award -> count)
    kept,            \* the number of candidates counted
    winners,         \* the list written to winners.json
    \* ---- candidate_pipeline.py, candidate_pipeline_dirty.py
    text,            \* the text of the last generate_from_text call
    cands,           \* the candidate list that call returned
    AWARD_FREQ,      \* Counter(normalized phrase -> count)
    AWARD_VARIANTS,  \* normalized phrase -> Counter(original phrase -> count)
    calls,           \* how many generate_from_text calls the run has made
    \* ---- infer_canonical_awards_from_learned.py
    data,            \* the rows of learned_awards.json
    similarity,      \* the merge threshold of the run (SIMILARITY_FOR_MERGE)
    clusters,        \* the candidate clusters still to be placed
    merged_clusters, \* the merged clusters (merged)
    canonical_list,  \* the list written to award_names_inferred.json
    inferred_map,    \* the dict written to award_variant_map.json
    \* ---- candidate_pipeline.py: the canonicalizer
    disc_freq,       \* freq of _discover_awards_from_texts
    disc_variants,   \* variants of _discover_awards_from_texts
    discovered,      \* the awards it returned (discovered_awards)
    per_award,       \* the vote counters of finalize_answers
    replayed,        \* the candidates its vote loop has gone through
    \* ---- the phrase normalizers
    norm_fn,         \* the normalizer applied
    norm_in,         \* the phrase it is applied to
    norm_once,       \* the phrase normalized
    norm_twice,      \* the normalized phrase normalized again
    \* ---- a stage run from the file it loads
    stage,           \* the stage that runs: detector, extractor or election
    input_json,      \* the parsed content of the stage's input file
    candidates,      \* the candidate list the election has loaded
    diagnostic,      \* the messages of the SystemExit exceptions raised
    \* ---- the extractor run by workers, each with its own tables
    shards,          \* per worker, the texts it has still to process
    tables,          \* per worker, its AWARD_FREQ and AWARD_VARIANTS
    unmerged,        \* the workers whose tables are not merged yet
    pool             \* the tables merged so far

spikeVars == <<tweets, include_rt, hist, top_k, peaks, window_min, spans, buckets>>

electVars == <<variant_map, seen, votes, total_per_award, kept, winners>>

extractVars == <<text, cands, AWARD_FREQ, AWARD_VARIANTS, calls>>

inferVars == <<data, similarity, clusters, merged_clusters, canonical_list, inferred_map>>

discVars == <<disc_freq, disc_variants, discovered, per_award, replayed>>

normVars == <<norm_fn, norm_in, norm_once, norm_twice>>

runVars == <<stage, input_json, candidates, diagnostic>>

workVars == <<shards, tables, unmerged, pool>>

otherVars == <<inferVars, discVars, normVars, runVars, workVars>>

vars == <<pc, spikeVars, electVars, extractVars, otherVars>>

None == [k |-> "none"]

\* A component that is not part of the run at hand keeps its start values.
SpikeIdle ==
    /\ tweets = <<>> /\ include_rt = FALSE /\ hist = <<>> /\ top_k = 0
    /\ peaks = <<>> /\ window_min = 0 /\ spans = <<>> /\ buckets = <<>>

ElectIdle ==
    /\ variant_map = <<>> /\ seen = 0 /\ votes = <<>>
    /\ total_per_award = <<>> /\ kept = 0 /\ winners = <<>>

ExtractIdle ==
    /\ text = <<>> /\ cands = <<>> /\ AWARD_FREQ = <<>>
    /\ AWARD_VARIANTS = <<>> /\ calls = 0

InferIdle ==
    /\ data = <<>> /\ similarity = 0 /\ clusters = <<>> /\ merged_clusters = <<>>
    /\ canonical_list = <<>> /\ inferred_map = <<>>

DiscIdle ==
    /\ disc_freq = <<>> /\ disc_variants = <<>>
    /\ discovered = <<>> /\ per_award = <<>> /\ replayed = <<>>

NormIdle ==
    /\ norm_fn = "" /\ norm_in = <<>> /\ norm_once = <<>> /\ norm_twice = <<>>

\* json.loads' result: a JSON array is tagged "list" and carries its
\* elements; an object, a string, a number and null carry nothing.
NoJson == [k |-> "null"]

RunIdle ==
    /\ stage = "" /\ input_json = NoJson
    /\ candidates = <<>> /\ diagnostic = <<>>

NoTables == [freq |-> <<>>, variants |-> <<>>]

WorkIdle ==
    /\ shards = <<>> /\ tables = <<>> /\ unmerged = {} /\ pool = NoTables

OtherIdle == InferIdle /\ DiscIdle /\ NormIdle /\ RunIdle /\ WorkIdle

(***************************************************************************)
(* Bounds of the model.                                                    *)
(***************************************************************************)
MaxTweets == 3
MaxBucket == 2
MaxTopK == 2
MaxRadius == 1
MergeMaxPeaks == 4
MergeMaxPeak == 5
MergeMaxRadius == 2
ElectMaxCands == 4
RunnersMaxCands == 7
RunnersPersons == 6
ShareMaxTotal == 1011
ExtractMaxLen == 5
RepeatMaxLen == 4
MaxCalls == 2
ReplayMaxCands == 4
WorkersMaxMsgs == 3
Workers == 2
RunMaxRecords == 2
InferMaxRows == 4
DiscoverMaxTexts == 21
FinalizeMaxCands == 3
NormMaxParts == 4

(***************************************************************************)
(* Generic helpers on sequences and on dicts/Counters.                     *)
(***************************************************************************)
Range(s) == {s[i] : i \in DOMAIN s}

SeqsUpTo(S, n) == UNION {[1..m -> S] : m \in 0..n}

Min2(a, b) == IF a <= b THEN a ELSE b
Max2(a, b) == IF a >= b THEN a ELSE b

Keys(c) == [i \in DOMAIN c |-> c[i].key]

CtrHas(c, key) == \E i \in DOMAIN c : c[i].key = key

CtrIdx(c, key) == CHOOSE i \in DOMAIN c : c[i].key = key

\* c.get(key, 0)
CtrGet(c, key) == IF CtrHas(c, key) THEN c[CtrIdx(c, key)].n ELSE 0

\* c[key] = c.get(key, 0) + n : a new key goes to the end of the dict
CtrAdd(c, key, n) ==
    IF CtrHas(c, key)
    THEN [c EXCEPT ![CtrIdx(c, key)].n = @ + n]
    ELSE Append(c, [key |-> key, n |-> n])

CtrTotal(c) ==
    LET RECURSIVE Sum(_)
        Sum(i) == IF i = 0 THEN 0 ELSE c[i].n + Sum(i - 1)
    IN Sum(Len(c))

RemoveAt(s, i) == SubSeq(s, 1, i - 1) \o SubSeq(s, i + 1, Len(s))

\* sorted(c.items(), key=lambda x: x[1], reverse=True): Python's sort is
\* stable, also under reverse=True, so equal counts keep their dict order.
RECURSIVE SortedByCountDesc(_)
SortedByCountDesc(c) ==
    IF c = <<>> THEN <<>>
    ELSE LET i == CHOOSE i \in DOMAIN c :
                    /\ \A j \in DOMAIN c : c[j].n <= c[i].n
                    /\ \A j \in 1..(i - 1) : c[j].n < c[i].n
         IN <<c[i]>> \o SortedByCountDesc(RemoveAt(c, i))

\* s[:n] for n >= 0
Take(s, n) == SubSeq(s, 1, Min2(n, Len(s)))

(***************************************************************************)
(* Spike detector: src/.defunct/extract_spikes.py                          *)
(***************************************************************************)
\* --bin-sec, default 60; main computes bin_ms = args.bin_sec * 1000
BinSec == 60
bin_ms == BinSec * 1000

\* Tweet texts, by what relevant() asks of them: the default --keywords
\* regex \b(wins?|awarded|goes\s+to|best)\b, and the "RT " prefix.
TweetTexts == {"Argo wins", "RT Argo wins", "hello"}

KeywordMatch(txt) == txt \in {"Argo wins", "RT Argo wins"}

StartsWithRT(txt) == txt \in {"RT Argo wins"}

\* timestamp_ms values: absent/null, a string int() cannot parse, or an
\* integer (the first millisecond of a bucket, or the last one of bucket 0)
Timestamps ==
    {None, [k |-> "bad"]}
        \cup {[k |-> "int", v |-> b * bin_ms] : b \in 0..MaxBucket}
        \cup {[k |-> "int", v |-> bin_ms - 1]}

Tweets == [text : TweetTexts, timestamp_ms : Timestamps]

minute_bucket(ts_ms, b_ms) == ts_ms \div b_ms

\* A "text" that is absent or null, and one that is a JSON number (5).
NullText == "<null>"
NumberText == "<5>"

relevant(tweet, inc_rt) ==
    LET txt == IF tweet.text = NullText THEN "" ELSE tweet.text
    IN IF ~inc_rt /\ StartsWithRT(txt) THEN FALSE ELSE KeywordMatch(txt)

\* relevant() raises: txt.startswith is an AttributeError on a number, and
\* anchor_re.search(txt) a TypeError
RelevantRaises(tweet) == tweet.text = NumberText

\* build_hist raises at the first such tweet: its loop has no handler
\* around relevant()
BuildHistRaises(ts) == \E i \in DOMAIN ts : RelevantRaises(ts[i])

\* int(ts) succeeds
IntParses(ts) == ts.k = "int"

\* the loop body of build_hist without the relevance test
HistStepCountingAll(h, t, inc_rt) ==
    IF t.timestamp_ms = None THEN h
    ELSE IF ~IntParses(t.timestamp_ms) THEN h
    ELSE CtrAdd(h, minute_bucket(t.timestamp_ms.v, bin_ms), 1)

\* One iteration of build_hist's loop body on dict h.
HistStep(h, t, inc_rt) ==
    IF ~relevant(t, inc_rt) THEN h
    ELSE IF t.timestamp_ms = None THEN h
    ELSE IF ~IntParses(t.timestamp_ms) THEN h
    ELSE CtrAdd(h, minute_bucket(t.timestamp_ms.v, bin_ms), 1)

RECURSIVE BuildHistFrom(_, _, _)
BuildHistFrom(h, ts, inc_rt) ==
    IF ts = <<>> THEN h
    ELSE BuildHistFrom(HistStep(h, Head(ts), inc_rt), Tail(ts), inc_rt)

build_hist(ts, inc_rt) == BuildHistFrom(<<>>, ts, inc_rt)

top_bins(h, k) == Keys(Take(SortedByCountDesc(h), k))

\* spans.sort(): tuples ascending by (start, end)
SpanLess(a, b) == a[1] < b[1] \/ (a[1] = b[1] /\ a[2] < b[2])

RECURSIVE SortSpans(_)
SortSpans(s) ==
    IF s = <<>> THEN <<>>
    ELSE LET i == CHOOSE i \in DOMAIN s : \A j \in DOMAIN s : ~SpanLess(s[j], s[i])
         IN <<s[i]>> \o SortSpans(RemoveAt(s, i))

\* The loop body of expand_and_merge: append the span, or widen the last one.
MergeStepAppendOnly(merged, sp) == Append(merged, sp)

\* the loop body merging only spans that overlap, not adjacent ones
MergeStepOverlapOnly(merged, sp) ==
    IF merged = <<>> \/ sp[1] > merged[Len(merged)][2]
    THEN Append(merged, sp)
    ELSE [merged EXCEPT ![Len(merged)] =
             <<@[1], IF @[2] >= sp[2] THEN @[2] ELSE sp[2]>>]

MergeStep(merged, sp) ==
    IF merged = <<>> \/ sp[1] > merged[Len(merged)][2] + 1
    THEN Append(merged, sp)
    ELSE [merged EXCEPT ![Len(merged)] = <<@[1], Max2(@[2], sp[2])>>]

RECURSIVE MergeFrom(_, _)
MergeFrom(merged, s) ==
    IF s = <<>> THEN merged
    ELSE MergeFrom(MergeStep(merged, Head(s)), Tail(s))

Expansions(pks, w) == [i \in DOMAIN pks |-> <<pks[i] - w, pks[i] + w>>]

expand_and_merge(pks, w) == MergeFrom(<<>>, SortSpans(Expansions(pks, w)))

\* line 82 with the end of the span left out: s <= m < e
InSpanHalfOpen(t, sp, inc_rt) ==
    /\ relevant(t, inc_rt)
    /\ t.timestamp_ms # None
    /\ IntParses(t.timestamp_ms)
    /\ sp[1] <= minute_bucket(t.timestamp_ms.v, bin_ms)
    /\ minute_bucket(t.timestamp_ms.v, bin_ms) < sp[2]

\* select_tweets: per span, the relevant tweets with a parseable timestamp
\* whose bucket lies in the span, in input order.
InSpan(t, sp, inc_rt) ==
    /\ relevant(t, inc_rt)
    /\ t.timestamp_ms # None
    /\ IntParses(t.timestamp_ms)
    /\ sp[1] <= minute_bucket(t.timestamp_ms.v, bin_ms)
    /\ minute_bucket(t.timestamp_ms.v, bin_ms) <= sp[2]

select_tweets(ts, sps, inc_rt) ==
    [i \in DOMAIN sps |-> SelectSeq(ts, LAMBDA t : InSpan(t, sps[i], inc_rt))]

\* ---- the detector as a run: main(), lines 125-151
InitSpikes ==
    /\ pc = "loaded"
    /\ tweets \in SeqsUpTo(Tweets, MaxTweets)
    /\ include_rt \in BOOLEAN
    /\ hist = <<>> /\ top_k = 0 /\ peaks = <<>>
    /\ window_min = 0 /\ spans = <<>> /\ buckets = <<>>
    /\ ElectIdle /\ ExtractIdle /\ OtherIdle

BuildHist ==
    /\ pc = "loaded"
    /\ IF BuildHistRaises(tweets)
       THEN /\ pc' = "raised"
            /\ hist' = hist
       ELSE /\ hist' = build_hist(tweets, include_rt)
            /\ pc' = "hist"
    /\ UNCHANGED <<tweets, include_rt, top_k, peaks, window_min, spans, buckets>>
    /\ UNCHANGED <<electVars, extractVars, otherVars>>

TopBins ==
    /\ pc = "hist"
    /\ \E k \in 1..MaxTopK :
         /\ top_k' = k
         /\ peaks' = top_bins(hist, k)
    /\ pc' = "peaks"
    /\ UNCHANGED <<tweets, include_rt, hist, window_min, spans, buckets>>
    /\ UNCHANGED <<electVars, extractVars, otherVars>>

ExpandAndMerge ==
    /\ pc = "peaks"
    /\ \E w \in 0..MaxRadius :
         /\ window_min' = w
         /\ spans' = expand_and_merge(peaks, w)
    /\ pc' = "spans"
    /\ UNCHANGED <<tweets, include_rt, hist, top_k, peaks, buckets>>
    /\ UNCHANGED <<electVars, extractVars, otherVars>>

SelectTweets ==
    /\ pc = "spans"
    /\ buckets' = select_tweets(tweets, spans, include_rt)
    /\ pc' = "selected"
    /\ UNCHANGED <<tweets, include_rt, hist, top_k, peaks, window_min, spans>>
    /\ UNCHANGED <<electVars, extractVars, otherVars>>

\* ---- the detector from its input file: main(), lines 125-151
IsList(j) == j.k = "list"

JsonList(v) == [k |-> "list", v |-> v]

NonLists == {[k |-> "object"], [k |-> "string"], [k |-> "number"], NoJson}

NOT_AN_ARRAY == "Input must be a JSON array of tweet objects."

\* load_json_array without its isinstance test
LoadJsonArrayUnchecked ==
    /\ pc = "start" /\ stage = "detector"
    /\ tweets' = IF IsList(input_json) THEN input_json.v ELSE <<>>
    /\ pc' = "loaded"
    /\ UNCHANGED <<include_rt, hist, top_k, peaks, window_min, spans, buckets>>
    /\ UNCHANGED <<electVars, extractVars, otherVars>>

LoadJsonArray ==
    /\ pc = "start" /\ stage = "detector"
    /\ IF IsList(input_json)
       THEN /\ tweets' = input_json.v
            /\ pc' = "loaded"
            /\ diagnostic' = diagnostic
       ELSE /\ tweets' = tweets
            /\ pc' = "exit"
            /\ diagnostic' = Append(diagnostic, NOT_AN_ARRAY)
    /\ UNCHANGED <<include_rt, hist, top_k, peaks, window_min, spans, buckets>>
    /\ UNCHANGED <<electVars, extractVars, inferVars, discVars, normVars, workVars>>
    /\ UNCHANGED <<stage, input_json, candidates>>

\* The message records of a run: text absent/null, a number, or a string;
\* timestamp_ms absent/null, not parseable by int(), or an integer.
RunTexts == {"Argo wins", "hello", NullText, NumberText}

RunTimestamps == {None, [k |-> "bad"], [k |-> "int", v |-> 0]}

RunTweets == [text : RunTexts, timestamp_ms : RunTimestamps]

InitDetector ==
    /\ pc = "start" /\ stage = "detector"
    /\ input_json \in
          NonLists \cup {JsonList(v) : v \in SeqsUpTo(RunTweets, RunMaxRecords)}
    /\ include_rt \in BOOLEAN
    /\ tweets = <<>> /\ hist = <<>> /\ top_k = 0 /\ peaks = <<>>
    /\ window_min = 0 /\ spans = <<>> /\ buckets = <<>>
    /\ candidates = <<>> /\ diagnostic = <<>>
    /\ ElectIdle /\ ExtractIdle /\ InferIdle /\ DiscIdle /\ NormIdle /\ WorkIdle

\* ---- expand_and_merge as a function of any peak list and radius
InitMerge ==
    /\ pc = "peaks"
    /\ peaks \in SeqsUpTo(0..MergeMaxPeak, MergeMaxPeaks)
    /\ window_min \in 0..MergeMaxRadius
    /\ tweets = <<>> /\ include_rt = FALSE /\ hist = <<>> /\ top_k = 0
    /\ spans = <<>> /\ buckets = <<>>
    /\ ElectIdle /\ ExtractIdle /\ OtherIdle

ExpandAndMergeCall ==
    /\ pc = "peaks"
    /\ spans' = expand_and_merge(peaks, window_min)
    /\ pc' = "spans"
    /\ UNCHANGED <<tweets, include_rt, hist, top_k, peaks, window_min, buckets>>
    /\ UNCHANGED <<electVars, extractVars, otherVars>>

(***************************************************************************)
(* Strings of the voter, as token sequences.  Lower and Cap1 are            *)
(* str.lower() and w[:1].upper() + w[1:] on the words of the model.        *)
(***************************************************************************)
Str(toks) == [k |-> "str", v |-> toks]

\* x or ""
OrEmpty(x) == IF x.k = "str" THEN x.v ELSE <<>>

Lower(w) ==
    CASE w = "Best" -> "best"
      [] w = "BEST" -> "best"
      [] w = "Drama" -> "drama"
      [] w = "Film" -> "film"
      [] w = "Of" -> "of"
      [] w = "Unrecognizable" -> "unrecognizable"
      [] w = "Award" -> "award"
      [] w = "Motion" -> "motion"
      [] w = "Picture" -> "picture"
      [] w = "Ben" -> "ben"
      [] w = "Amy" -> "amy"
      [] w = "Cy" -> "cy"
      [] w = "Dee" -> "dee"
      [] w = "Eve" -> "eve"
      [] w = "Fay" -> "fay"
      [] w = "Gus" -> "gus"
      [] w = "Argo" -> "argo"
      [] w = "TV" -> "tv"
      [] w = "Actor" -> "actor"
      [] OTHER -> w

Cap1(w) ==
    CASE w = "best" -> "Best"
      [] w = "drama" -> "Drama"
      [] w = "film" -> "Film"
      [] w = "of" -> "Of"
      [] w = "unrecognizable" -> "Unrecognizable"
      [] w = "award" -> "Award"
      [] w = "motion" -> "Motion"
      [] w = "picture" -> "Picture"
      [] w = "ben" -> "Ben"
      [] w = "amy" -> "Amy"
      [] w = "cy" -> "Cy"
      [] w = "dee" -> "Dee"
      [] w = "eve" -> "Eve"
      [] w = "fay" -> "Fay"
      [] w = "gus" -> "Gus"
      [] w = "argo" -> "Argo"
      [] w = "tv" -> "Tv"
      [] w = "actor" -> "Actor"
      [] OTHER -> w

LowerAll(toks) == [i \in DOMAIN toks |-> Lower(toks[i])]

\* DASHES = [\u2012\u2013\u2014\u2212-], as stand-alone tokens; the token
\* "--" stands for the en dash U+2013
EnDash == "--"

IsDash(w) == w \in {"-", EnDash}

\* s.replace(" tv ", " television "): str.replace scans left to right and
\* its matches do not overlap, so a "tv" whose leading space closed the
\* previous match stays; a first or last "tv" has no space on one side.
RECURSIVE TvReplaced(_, _)
TvReplaced(toks, i) ==
    /\ 1 < i /\ i < Len(toks)
    /\ toks[i] = "tv"
    /\ ~TvReplaced(toks, i - 1)

ReplaceTv(toks) ==
    [i \in DOMAIN toks |-> IF TvReplaced(toks, i) THEN "television" ELSE toks[i]]

\* winners_from_candidates.normalize_award_key
normalize_award_key(toks) ==
    LET low == [i \in DOMAIN toks |->
                   IF IsDash(toks[i]) THEN "-" ELSE Lower(toks[i])]
        amp == [i \in DOMAIN low |-> IF low[i] = "&" THEN "and" ELSE low[i]]
    IN ReplaceTv(amp)

SMALL == {"and", "or", "of", "the", "a", "an", "in", "for", "by", "to",
          "on", "at", "with", "series", "film"}

\* Title-case the words, small words lower-case unless first
TitleWords(toks) ==
    [i \in DOMAIN toks |->
        IF i > 1 /\ Lower(toks[i]) \in SMALL THEN Lower(toks[i]) ELSE Cap1(toks[i])]

\* QUOTES.sub("", s) and PARENS.sub("", s), on the quoted words of the model
StripQuotes(w) ==
    CASE w = "'Amy'" -> "Amy"
      [] w = "(Ben)" -> "Ben"
      [] OTHER -> w

normalize_person(toks) ==
    TitleWords([i \in DOMAIN toks |-> StripQuotes(toks[i])])

\* every dash, spaced or not, becomes an en dash with a space on each side
unify_dash_readable(toks) ==
    [i \in DOMAIN toks |-> IF IsDash(toks[i]) THEN EnDash ELSE toks[i]]

smart_title_award(toks) == TitleWords(unify_dash_readable(toks))

\* variant_map is a dict from award strings to canonical names
MapHas(m, key) == \E i \in DOMAIN m : m[i].key = key

MapGet(m, key) == m[CHOOSE i \in DOMAIN m : m[i].key = key].val

UNRECOGNIZABLE == <<"unrecognizable", "award">>

canonicalize_award(name, vmap) ==
    IF name = <<>> \/ LowerAll(name) = UNRECOGNIZABLE THEN <<>>
    ELSE IF MapHas(vmap, name) THEN MapGet(vmap, name)
    ELSE IF MapHas(vmap, normalize_award_key(name))
         THEN MapGet(vmap, normalize_award_key(name))
    ELSE smart_title_award(name)

\* load_award_map: every raw entry under its own key and its normalized key
RECURSIVE LoadAwardMapFrom(_, _)
LoadAwardMapFrom(m, raw) ==
    IF raw = <<>> THEN m
    ELSE LET e == Head(raw)
             Put(mm, key) ==
                 IF MapHas(mm, key)
                 THEN [mm EXCEPT ![CHOOSE i \in DOMAIN mm : mm[i].key = key].val = e.val]
                 ELSE Append(mm, [key |-> key, val |-> e.val])
         IN LoadAwardMapFrom(Put(Put(m, e.key), normalize_award_key(e.key)), Tail(raw))

load_award_map(raw) == LoadAwardMapFrom(<<>>, raw)

(***************************************************************************)
(* Consensus voter: src/winners_from_candidates.py                         *)
(***************************************************************************)
\* votes[award][person] += 1 on a defaultdict(Counter)
VotesHas(v, award) == \E i \in DOMAIN v : v[i].award = award

VotesIdx(v, award) == CHOOSE i \in DOMAIN v : v[i].award = award

\* the vote counted only for an award that has no Counter yet
VotesIncNewAwardOnly(v, award, person) ==
    IF VotesHas(v, award) THEN v
    ELSE Append(v, [award |-> award, ctr |-> CtrAdd(<<>>, person, 1)])

VotesInc(v, award, person) ==
    IF VotesHas(v, award)
    THEN [v EXCEPT ![VotesIdx(v, award)].ctr = CtrAdd(@, person, 1)]
    ELSE Append(v, [award |-> award, ctr |-> CtrAdd(<<>>, person, 1)])

\* Counter.most_common(n): sorted by count descending, first n; equal
\* counts stay in insertion order
most_common_n_unsorted(ctr, n) == Take(ctr, n)

most_common_n(ctr, n) == Take(SortedByCountDesc(ctr), n)

\* Counter.most_common(1)[0] = max(items, key=count): the first maximum
most_common_first_inserted(ctr) == ctr[1]

\* the last maximum in place of the first
most_common_last_maximum(ctr) ==
    ctr[CHOOSE i \in DOMAIN ctr :
            /\ \A j \in DOMAIN ctr : ctr[j].n <= ctr[i].n
            /\ \A j \in (i + 1)..Len(ctr) : ctr[j].n < ctr[i].n]

most_common_1(ctr) ==
    ctr[CHOOSE i \in DOMAIN ctr :
            /\ \A j \in DOMAIN ctr : ctr[j].n <= ctr[i].n
            /\ \A j \in 1..(i - 1) : ctr[j].n < ctr[i].n]

\* LOW_CONF_SHARE = 0.55 = 11/20
LowConfNum == 11
LowConfDen == 20

(***************************************************************************)
(* share = top_count / total is an IEEE double.  FloatDivDir(p, q) is the   *)
(* sign of fl(p/q) - p/q for 0 < p <= q: the quotient's binary expansion   *)
(* is cut after 53 significant bits and rounded to nearest, ties to even.  *)
(* The bits after the leading one are produced by long division, 16 at a   *)
(* time (q < 2^15 keeps every product within 32 bits).                     *)
(***************************************************************************)
\* the remainder after the leading one bit of p/q, for 0 < r < q
RECURSIVE AfterLeadingBit(_, _)
AfterLeadingBit(r, q) ==
    IF 2 * r >= q THEN 2 * r - q ELSE AfterLeadingBit(2 * r, q)

FloatDivDir(p, q) ==
    IF p = q THEN 0
    ELSE LET r1 == AfterLeadingBit(p, q)            \* 1 bit
             r17 == (r1 * 65536) % q                 \* 17 bits
             r33 == (r17 * 65536) % q                \* 33 bits
             r49 == (r33 * 65536) % q                \* 49 bits
             last4 == (r49 * 16) \div q              \* bits 50..53
             r53 == (r49 * 16) % q
         IN IF r53 = 0 THEN 0
            ELSE IF 2 * r53 < q THEN -1
            ELSE IF 2 * r53 > q THEN 1
            ELSE IF last4 % 2 = 1 THEN 1 ELSE -1

\* share < LOW_CONF_SHARE on doubles: fl is monotone and p/q, 11/20 differ
\* by at least 1/(20q), far more than a double's spacing, so the comparison
\* of the doubles is the comparison of the fractions.
ShareBelowOrEqual(p, q) == LowConfDen * p <= LowConfNum * q

ShareBelow(p, q) == LowConfDen * p < LowConfNum * q

\* round(share, 4) in ten-thousandths: the decimal nearest to the double,
\* and, when the double is exactly half way, the even one.
Round4Truncating(p, q) == (10000 * p) \div q

Round4(p, q) ==
    LET t == 10000 * p
        k == t \div q
        rem == t % q
    IN IF 2 * rem < q THEN k
       ELSE IF 2 * rem > q THEN k + 1
       ELSE LET d == FloatDivDir(p, q)
            IN IF d > 0 THEN k + 1
               ELSE IF d < 0 THEN k
               ELSE IF k % 2 = 0 THEN k ELSE k + 1

\* The order of winners.sort(key=lambda r: r["award"]) on the award names
\* of the model (code-point order of the joined strings).
AwardRank(a) ==
    CASE a = <<"Best", "Drama">> -> 1
      [] a = <<"Best", "Film">> -> 2
      [] a = <<"Best", "Motion", "Picture", EnDash, "Drama">> -> 3
      [] OTHER -> 4

RECURSIVE SortByAward(_)
SortByAward(ws) ==
    IF ws = <<>> THEN <<>>
    ELSE LET i == CHOOSE i \in DOMAIN ws :
                    /\ \A j \in DOMAIN ws : AwardRank(ws[i].award) <= AwardRank(ws[j].award)
                    /\ \A j \in 1..(i - 1) : AwardRank(ws[i].award) < AwardRank(ws[j].award)
         IN <<ws[i]>> \o SortByAward(RemoveAt(ws, i))

\* The record main appends for one award (lines 148-162); winner_share is
\* in ten-thousandths.
WinnerRecord(award, ctr, total) ==
    LET top == most_common_1(ctr)
    IN [award |-> unify_dash_readable(award),
        winner |-> top.key,
        votes_for_winner |-> top.n,
        total_votes_for_award |-> total,
        winner_share |-> IF total # 0 THEN Round4(top.n, total) ELSE 0,
        low_confidence |-> IF total # 0 THEN ShareBelow(top.n, total) ELSE TRUE,
        runner_up |-> Tail(most_common_n(ctr, 5))]

\* (x or "").strip() raises AttributeError when x is a number other than 0:
\* a number is the only value of the model that is neither None nor a string
StripRaises(x) == x.k \notin {"str", "none"}

\* ---- the tally loop body, lines 123-140, on candidate c
Tally(c) ==
    LET award_raw == OrEmpty(c.award_name)
        person_raw == OrEmpty(c.subject)
        award == canonicalize_award(award_raw, variant_map)
        person == normalize_person(person_raw)
        skip == \/ award_raw = <<>>
                \/ LowerAll(award_raw) = UNRECOGNIZABLE
                \/ person_raw = <<>>
                \/ award = <<>>
    IN /\ pc = "tally"
       /\ IF StripRaises(c.award_name) \/ StripRaises(c.subject)
          THEN /\ pc' = "raised"
               /\ UNCHANGED <<seen, votes, total_per_award, kept>>
          ELSE /\ pc' = pc
               /\ seen' = seen + 1
               /\ IF skip
                  THEN UNCHANGED <<votes, total_per_award, kept>>
                  ELSE /\ votes' = VotesInc(votes, award, person)
                       /\ total_per_award' = CtrAdd(total_per_award, award, 1)
                       /\ kept' = kept + 1
       /\ UNCHANGED <<variant_map, winners, spikeVars, extractVars, otherVars>>

\* the loop is over: lines 142-168
Elect ==
    /\ pc = "tally"
    /\ kept # 0
    /\ winners' = SortByAward(
           [i \in DOMAIN votes |->
               WinnerRecord(votes[i].award, votes[i].ctr,
                            CtrGet(total_per_award, votes[i].award))])
    /\ pc' = "written"
    /\ UNCHANGED <<variant_map, seen, votes, total_per_award, kept, spikeVars, extractVars, otherVars>>

NO_USABLE == "No usable candidates found (all unrecognizable or empty)."

\* lines 142-168 without the kept == 0 test: an empty winners.json
NoUsableCandidatesWritten ==
    /\ pc = "tally"
    /\ kept = 0
    /\ winners' = <<>>
    /\ pc' = "written"
    /\ UNCHANGED <<variant_map, seen, votes, total_per_award, kept>>
    /\ UNCHANGED <<spikeVars, extractVars, otherVars>>

\* raise SystemExit("No usable candidates found ..."), line 143
NoUsableCandidates ==
    /\ pc = "tally"
    /\ kept = 0
    /\ pc' = "exit"
    /\ diagnostic' = Append(diagnostic, NO_USABLE)
    /\ UNCHANGED <<electVars, spikeVars, extractVars>>
    /\ UNCHANGED <<inferVars, discVars, normVars, workVars, stage, input_json, candidates>>

\* The candidates of the model: award_name and subject absent, empty, the
\* "unrecognizable award" marker, and spellings of two awards, three people.
ElectAwards ==
    {None, Str(<<>>), Str(<<"Unrecognizable", "award">>),
     Str(<<"Best", "Drama">>), Str(<<"best", "drama">>), Str(<<"Best", "Film">>)}

ElectSubjects ==
    {None, Str(<<>>), Str(<<"Ben">>), Str(<<"ben">>), Str(<<"'Amy'">>), Str(<<"Cy">>)}

ElectCandidates == [award_name : ElectAwards, subject : ElectSubjects]

\* award_variant_map.json: absent, or one learned variant
AwardMapFiles ==
    {<<>>,
     <<[key |-> <<"Best", "drama">>,
        val |-> <<"Best", "Motion", "Picture", "-", "Drama">>]>>}

InitElect ==
    /\ pc = "tally"
    /\ variant_map \in {load_award_map(raw) : raw \in AwardMapFiles}
    /\ seen = 0 /\ votes = <<>> /\ total_per_award = <<>> /\ kept = 0
    /\ winners = <<>>
    /\ SpikeIdle /\ ExtractIdle /\ OtherIdle

\* ---- the election from its input file: main(), lines 108-143
NOT_A_CANDIDATE_ARRAY == "candidates.json must be a JSON array"

\* lines 112-116: json.loads, the isinstance test, load_award_map
LoadCandidates ==
    /\ pc = "start" /\ stage = "election"
    /\ IF IsList(input_json)
       THEN /\ candidates' = input_json.v
            /\ \E raw \in AwardMapFiles : variant_map' = load_award_map(raw)
            /\ pc' = "tally"
            /\ diagnostic' = diagnostic
       ELSE /\ candidates' = candidates
            /\ variant_map' = variant_map
            /\ pc' = "exit"
            /\ diagnostic' = Append(diagnostic, NOT_A_CANDIDATE_ARRAY)
    /\ UNCHANGED <<seen, votes, total_per_award, kept, winners>>
    /\ UNCHANGED <<spikeVars, extractVars, inferVars, discVars, normVars, workVars>>
    /\ UNCHANGED <<stage, input_json>>

\* The candidate records of a run: award_name and subject absent/null, a
\* number (5), or a string.
RunAwards == {None, [k |-> "int", v |-> 5], Str(<<>>), Str(<<"Best", "Drama">>)}

RunSubjects == {None, [k |-> "int", v |-> 5], Str(<<"Ben">>)}

RunCandidates == [award_name : RunAwards, subject : RunSubjects]

InitElection ==
    /\ pc = "start" /\ stage = "election"
    /\ input_json \in
          NonLists \cup {JsonList(v) : v \in SeqsUpTo(RunCandidates, RunMaxRecords)}
    /\ ElectIdle
    /\ candidates = <<>> /\ diagnostic = <<>>
    /\ SpikeIdle /\ ExtractIdle /\ InferIdle /\ DiscIdle /\ NormIdle /\ WorkIdle

\* ---- the election as a function of the candidate list: lines 119-165
\* with the variant map vmap, for a list whose fields are strings or absent
RECURSIVE TallyOf(_, _, _)
TallyOf(st, cs, vmap) ==
    IF cs = <<>> THEN st
    ELSE LET c == Head(cs)
             award_raw == OrEmpty(c.award_name)
             person_raw == OrEmpty(c.subject)
             award == canonicalize_award(award_raw, vmap)
             person == normalize_person(person_raw)
             skip == \/ award_raw = <<>>
                     \/ LowerAll(award_raw) = UNRECOGNIZABLE
                     \/ person_raw = <<>>
                     \/ award = <<>>
         IN TallyOf(
                IF skip THEN st
                ELSE [votes |-> VotesInc(st.votes, award, person),
                      total_per_award |-> CtrAdd(st.total_per_award, award, 1),
                      kept |-> st.kept + 1],
                Tail(cs), vmap)

\* the winners list, or the exit of line 143
NoWinners == <<"SystemExit">>

ElectionOf(cs, vmap) ==
    LET st == TallyOf([votes |-> <<>>, total_per_award |-> <<>>, kept |-> 0],
                      cs, vmap)
    IN IF st.kept = 0 THEN NoWinners
       ELSE SortByAward(
                [i \in DOMAIN st.votes |->
                    WinnerRecord(st.votes[i].award, st.votes[i].ctr,
                                 CtrGet(st.total_per_award, st.votes[i].award))])

\* A candidate list replayed: two people, three spellings of two awards,
\* the "unrecognizable award" marker, an empty subject; a variant map that
\* is absent, or gives one award a canonical name and another an empty one.
ReplayCandidates ==
    [award_name : {Str(<<"Unrecognizable", "award">>), Str(<<"Best", "Drama">>),
                   Str(<<"best", "drama">>), Str(<<"Best", "Film">>)},
     subject : {Str(<<"Ben">>), Str(<<"Cy">>)}]
        \cup {[award_name |-> Str(<<"Best", "Drama">>), subject |-> Str(<<>>)]}

ReplayMapFiles ==
    {<<>>,
     <<[key |-> <<"Best", "drama">>,
        val |-> <<"Best", "Motion", "Picture", "-", "Drama">>],
       [key |-> <<"Best", "Film">>, val |-> <<>>]>>}

InitReplay ==
    /\ pc = "tally" /\ stage = "election"
    /\ candidates \in SeqsUpTo(ReplayCandidates, ReplayMaxCands)
    /\ input_json = JsonList(candidates)
    /\ variant_map \in {load_award_map(raw) : raw \in ReplayMapFiles}
    /\ seen = 0 /\ votes = <<>> /\ total_per_award = <<>> /\ kept = 0
    /\ winners = <<>>
    /\ diagnostic = <<>>
    /\ SpikeIdle /\ ExtractIdle /\ InferIdle /\ DiscIdle /\ NormIdle /\ WorkIdle

\* One award, many people: the runner-up list
PersonNames == <<"Amy", "Ben", "Cy", "Dee", "Eve", "Fay", "Gus", "Hal">>

RunnerCandidates ==
    [award_name : {Str(<<"Best", "Drama">>)},
     subject : {Str(<<PersonNames[i]>>) : i \in 1..Min2(RunnersPersons, Len(PersonNames))}]

InitRunners ==
    /\ pc = "tally"
    /\ variant_map = <<>>
    /\ seen = 0 /\ votes = <<>> /\ total_per_award = <<>> /\ kept = 0
    /\ winners = <<>>
    /\ SpikeIdle /\ ExtractIdle /\ OtherIdle

\* The state after any candidate list that gives one award a votes for one
\* person and then b for another
InitShare ==
    /\ pc = "tally"
    /\ variant_map = <<>>
    /\ \E a \in 1..ShareMaxTotal : \E b \in 0..(ShareMaxTotal - a) :
         /\ votes = <<[award |-> <<"Best", "Drama">>,
                       ctr |-> IF b = 0 THEN <<[key |-> <<"Ben">>, n |-> a]>>
                               ELSE <<[key |-> <<"Ben">>, n |-> a],
                                      [key |-> <<"Amy">>, n |-> b]>>]>>
         /\ total_per_award = <<[key |-> <<"Best", "Drama">>, n |-> a + b]>>
         /\ kept = a + b
         /\ seen = a + b
    /\ winners = <<>>
    /\ SpikeIdle /\ ExtractIdle /\ OtherIdle

(***************************************************************************)
(* The relation extractor: candidate_pipeline.py and                       *)
(* candidate_pipeline_dirty.py.  A text is a sequence of words; a link     *)
(* phrase ("goes to", "takes home") is one word of the model.  The words   *)
(* of the model carry no URL, handle, hashtag, quote or bracket, so the    *)
(* substitutions of normalize_text that remove those leave them alone.     *)
(***************************************************************************)
\* f(v) with v evaluated once, where a LET would evaluate v at each use
Bind(v, f(_)) == CHOOSE r \in {f(x) : x \in {v}} : TRUE

\* " ".join(toks): the string the token sequence stands for
RECURSIVE Join(_)
Join(toks) ==
    IF toks = <<>> THEN ""
    ELSE IF Len(toks) = 1 THEN toks[1]
    ELSE toks[1] \o " " \o Join(Tail(toks))

\* ANCHORS["WIN_A"], ANCHORS["WIN_B"]: the alternatives of group 2 (re.I)
WIN_A == {"wins", "win", "receives", "receive", "gets", "takes home", "is awarded"}

WIN_B == {"goes to", "awarded to"}

\* split3: pat.search finds the leftmost link phrase that has text before
\* it (group 1 is lazy) and text after it
split3(toks, pat) ==
    LET hits == {i \in 2..(Len(toks) - 1) : Lower(toks[i]) \in pat}
    IN IF hits = {} THEN None
       ELSE LET i == CHOOSE h \in hits : \A g \in hits : h <= g
            IN [k |-> "match",
                L |-> SubSeq(toks, 1, i - 1),
                anchor |-> toks[i],
                R |-> SubSeq(toks, i + 1, Len(toks))]

\* nlp: the entity label of spaCy's model for a word, here a fixed table
NerLabel(w) ==
    CASE w \in {"Ben", "Amy"} -> "PERSON"
      [] w = "Argo" -> "WORK_OF_ART"
      [] OTHER -> "O"

filter_name_any_label(toks) == SelectSeq(toks, LAMBDA w : NerLabel(w) # "O")

\* filter_name: the PERSON entities of the text, in order
filter_name(toks) == SelectSeq(toks, LAMBDA w : NerLabel(w) = "PERSON")

\* normalize_text: dashes to "-", lower case, "&" to "and", an inner "tv"
\* to "television"
normalize_text(toks) ==
    LET low == [i \in DOMAIN toks |->
                   IF IsDash(toks[i]) THEN "-" ELSE Lower(toks[i])]
        amp == [i \in DOMAIN low |-> IF low[i] = "&" THEN "and" ELSE low[i]]
    IN ReplaceTv(amp)

\* BEST_SPAN = \b(best\s+[a-z0-9&/,\-.\s]{3,120}), re.I: the first "best"
\* followed by at least BestSpanMin characters.  Every word of the
\* model is made of characters of the class, and a side is shorter than
\* 120 characters, so the span runs to the end of the side.
BestSpanMin == 3

HasBest(toks) == \E i \in DOMAIN toks : Lower(toks[i]) = "best"

BEST_SPAN(side) ==
    LET starts == {i \in 1..(Len(side) - 1) :
                      /\ Lower(side[i]) = "best"
                      /\ Len(Join(SubSeq(side, i + 1, Len(side)))) >= BestSpanMin}
    IN IF starts = {} THEN None
       ELSE LET i == CHOOSE h \in starts : \A g \in starts : h <= g
            IN Str(SubSeq(side, i, Len(side)))

\* TRIM_AT = [.!?;:|]: cut at the first strong punctuation
TRIM_AT(cand) ==
    LET cuts == {i \in DOMAIN cand : cand[i] \in {".", "!", "?", ";", ":", "|"}}
    IN IF cuts = {} THEN cand
       ELSE SubSeq(cand, 1, (CHOOSE h \in cuts : \A g \in cuts : h <= g) - 1)

\* cand.strip(" -~..."): separators at either end go
RECURSIVE StripSeparators(_)
StripSeparators(cand) ==
    IF cand = <<>> THEN cand
    ELSE IF cand[1] \in {"-", "~"} THEN StripSeparators(Tail(cand))
    ELSE IF cand[Len(cand)] \in {"-", "~"}
         THEN StripSeparators(SubSeq(cand, 1, Len(cand) - 1))
    ELSE cand

\* len(norm) < 8 rejects
MinNormLen == 8

\* AWARD_VARIANTS.setdefault(norm, Counter())[cand] += 1
VariantsHas(variants, norm) == \E i \in DOMAIN variants : variants[i].key = norm

VariantsAdd(variants, norm, cand) ==
    IF VariantsHas(variants, norm)
    THEN [i \in DOMAIN variants |->
             IF variants[i].key = norm
             THEN [variants[i] EXCEPT !.ctr = CtrAdd(@, cand, 1)]
             ELSE variants[i]]
    ELSE Append(variants, [key |-> norm, ctr |-> <<[key |-> cand, n |-> 1]>>])

VariantsOfFirstKey(variants, norm) == variants[1].ctr

\* AWARD_VARIANTS[norm]
VariantsOf(variants, norm) ==
    variants[CHOOSE i \in DOMAIN variants : variants[i].key = norm].ctr

Rejected(freq, variants) == [ret |-> None, freq |-> freq, variants |-> variants]

\* lines 321-323 counting a normalized phrase only the first time it is met
RecordFirstOnly(cand, norm, freq, variants) ==
    IF VariantsHas(variants, norm)
    THEN [ret |-> Str(most_common_1(VariantsOf(variants, norm)).key),
          freq |-> freq, variants |-> variants]
    ELSE [ret |-> Str(cand),
          freq |-> CtrAdd(freq, norm, 1),
          variants |-> VariantsAdd(variants, norm, cand)]

\* lines 321-323 without line 321: the variant counted, the phrase not
RecordVariantOnly(cand, norm, freq, variants) ==
    Bind(VariantsAdd(variants, norm, cand), LAMBDA variants2 :
        [ret |-> Str(most_common_1(VariantsOf(variants2, norm)).key),
         freq |-> freq,
         variants |-> variants2])

\* lines 321-323: count the phrase, return the most common original
Record(cand, norm, freq, variants) ==
    Bind(VariantsAdd(variants, norm, cand), LAMBDA variants2 :
        [ret |-> Str(most_common_1(VariantsOf(variants2, norm)).key),
         freq |-> CtrAdd(freq, norm, 1),
         variants |-> variants2])

\* lines 306-313: the span or the whole side, trimmed and stripped
AwardSpan(side_text) ==
    Bind(BEST_SPAN(side_text), LAMBDA m :
        StripSeparators(TRIM_AT(IF m # None THEN m.v ELSE side_text)))

extract_award_without_length_gate(side_text, freq, variants) ==
    Bind(AwardSpan(side_text), LAMBDA cand :
    Bind(normalize_text(cand), LAMBDA norm :
        IF side_text = <<>> THEN Rejected(freq, variants)
        ELSE IF cand = <<>> \/ ~HasBest(cand) THEN Rejected(freq, variants)
        ELSE Record(cand, norm, freq, variants)))

\* extract_award_from_side: the phrase returned (or None) and the two
\* tables as the call leaves them
extract_award_from_side(side_text, freq, variants) ==
    Bind(AwardSpan(side_text), LAMBDA cand :
    Bind(normalize_text(cand), LAMBDA norm :
        IF side_text = <<>> THEN Rejected(freq, variants)
        ELSE IF cand = <<>> \/ ~HasBest(cand) THEN Rejected(freq, variants)
        ELSE IF Len(Join(norm)) < MinNormLen THEN Rejected(freq, variants)
        ELSE Record(cand, norm, freq, variants)))

mk_candidate(rule_id, award_name, anchor_text, subject) ==
    [rule_id |-> rule_id, award_name |-> award_name,
     anchor_text |-> anchor_text, subject |-> subject]

Returned(cs, freq, variants) == [cands |-> cs, freq |-> freq, variants |-> variants]

\* generate_from_text, lines 378-388: the WIN_B rule on its own
TryWinB(t, freq, variants) ==
    Bind(split3(t, WIN_B), LAMBDA sb :
    Bind(IF sb = None THEN <<>> ELSE filter_name(sb.R), LAMBDA names :
    Bind(IF names = <<>> THEN Rejected(freq, variants)
         ELSE extract_award_from_side(sb.L, freq, variants), LAMBDA e :
        IF e.ret = None THEN Returned(<<>>, e.freq, e.variants)
        ELSE Returned(<<mk_candidate("WIN_B", e.ret.v, sb.anchor, names[1])>>,
                      e.freq, e.variants))))

\* generate_from_text, lines 390-399: the WIN_A rule on its own
TryWinA(t, freq, variants) ==
    Bind(split3(t, WIN_A), LAMBDA sa :
    Bind(IF sa = None THEN <<>> ELSE filter_name(sa.L), LAMBDA names :
    Bind(IF names = <<>> THEN Rejected(freq, variants)
         ELSE extract_award_from_side(sa.R, freq, variants), LAMBDA e :
        IF e.ret = None THEN Returned(<<>>, e.freq, e.variants)
        ELSE Returned(<<mk_candidate("WIN_A", e.ret.v, sa.anchor, names[1])>>,
                      e.freq, e.variants))))

generate_from_text_WinAFirst(t, freq, variants) ==
    Bind(TryWinA(t, freq, variants), LAMBDA a :
        IF a.cands # <<>> THEN a ELSE TryWinB(t, a.freq, a.variants))

generate_from_text_ReturnOnNoName(t, freq, variants) ==
    LET sb == split3(t, WIN_B)
    IN IF sb # None /\ filter_name(sb.R) = <<>> THEN Returned(<<>>, freq, variants)
       ELSE Bind(TryWinB(t, freq, variants), LAMBDA b :
                IF b.cands # <<>> THEN b ELSE TryWinA(t, b.freq, b.variants))

\* candidate_pipeline.generate_from_text
generate_from_text(t, freq, variants) ==
    Bind(TryWinB(t, freq, variants), LAMBDA b :
        IF b.cands # <<>> THEN b ELSE TryWinA(t, b.freq, b.variants))

\* candidate_pipeline_dirty.extract_award_from_side: the same steps (its
\* further strip() of surrounding white space removes nothing from a text
\* made of words)
dirty_extract_award_from_side(side_text, freq, variants) ==
    extract_award_from_side(side_text, freq, variants)

UNRECOGNIZABLE_AWARD == <<"unrecognizable", "award">>

\* candidate_pipeline_dirty.filter_award_name
filter_award_name(t, freq, variants) ==
    Bind(dirty_extract_award_from_side(t, freq, variants), LAMBDA e :
        [e EXCEPT !.ret = IF e.ret # None THEN e.ret ELSE Str(UNRECOGNIZABLE_AWARD)])

\* extract_award_from_side(side) or filter_award_name(side)
DirtyAward(side, freq, variants) ==
    Bind(dirty_extract_award_from_side(side, freq, variants), LAMBDA e :
        IF e.ret # None THEN e ELSE filter_award_name(side, e.freq, e.variants))

\* candidate_pipeline_dirty.generate_from_text
DirtyRule(rule_id, x, entity_side, award_side, freq, variants) ==
    Bind(filter_name(entity_side), LAMBDA names :
        IF names = <<>> THEN Returned(<<>>, freq, variants)
        ELSE Bind(DirtyAward(award_side, freq, variants), LAMBDA e :
                 Returned(<<mk_candidate(rule_id, e.ret.v, x.anchor, names[1])>>,
                          e.freq, e.variants)))

dirty_generate_from_text(t, freq, variants) ==
    Bind(split3(t, WIN_B), LAMBDA xb :
        IF xb # None THEN DirtyRule("WIN_B", xb, xb.R, xb.L, freq, variants)
        ELSE Bind(split3(t, WIN_A), LAMBDA xa :
                 IF xa # None THEN DirtyRule("WIN_A", xa, xa.L, xa.R, freq, variants)
                 ELSE Returned(<<>>, freq, variants)))

\* A text argument that is None: a message whose text is absent or null.
NoneText == <<"<None>">>

\* split3's pat.search(text) raises TypeError on a text that is no string
SearchRaises(t) == t = NoneText

\* One call of candidate_pipeline.generate_from_text on text t
GenerateFromText(t) ==
    \E r \in {generate_from_text(t, AWARD_FREQ, AWARD_VARIANTS)} :
       /\ pc \in {"ready", "extracted"}
       /\ text' = t
       /\ IF SearchRaises(t)
          THEN /\ pc' = "raised"
               /\ UNCHANGED <<cands, AWARD_FREQ, AWARD_VARIANTS, calls>>
          ELSE /\ cands' = r.cands
               /\ AWARD_FREQ' = r.freq
               /\ AWARD_VARIANTS' = r.variants
               /\ calls' = calls + 1
               /\ pc' = "extracted"
       /\ UNCHANGED <<spikeVars, electVars, otherVars>>

\* One call of candidate_pipeline_dirty.generate_from_text on text t
DirtyGenerateFromText(t) ==
    \E r \in {dirty_generate_from_text(t, AWARD_FREQ, AWARD_VARIANTS)} :
       /\ pc \in {"ready", "extracted_dirty"}
       /\ text' = t
       /\ cands' = r.cands
       /\ AWARD_FREQ' = r.freq
       /\ AWARD_VARIANTS' = r.variants
       /\ calls' = calls + 1
       /\ pc' = "extracted_dirty"
       /\ UNCHANGED <<spikeVars, electVars, otherVars>>

\* The words of single-call runs and of repeated runs
ExtractWords == {"Ben", "Argo", "wins", "goes to", "Best", "Actor", "Drama", "."}

RepeatWords == {"Ben", "wins", "goes to", "Best", "best"}

ExtractTexts == SeqsUpTo(ExtractWords, ExtractMaxLen)

RepeatTexts == SeqsUpTo(RepeatWords, RepeatMaxLen)

\* A fresh interpreter: nothing extracted, both tables empty
InitExtract ==
    /\ pc = "ready"
    /\ ExtractIdle /\ SpikeIdle /\ ElectIdle /\ OtherIdle

\* The extractor over the texts of a message list, one call per message.
RunMessages ==
    {<<>>, NoneText, <<"Argo">>, <<"Ben", "wins", "Best", "Actor">>}

InitExtractor ==
    /\ pc = "ready" /\ stage = "extractor"
    /\ input_json \in {JsonList(v) : v \in SeqsUpTo(RunMessages, RunMaxRecords)}
    /\ candidates = <<>> /\ diagnostic = <<>>
    /\ ExtractIdle /\ SpikeIdle /\ ElectIdle
    /\ InferIdle /\ DiscIdle /\ NormIdle /\ WorkIdle

\* ---- the extractor run by workers: the message list is dealt out to the
\* workers, each worker calls generate_from_text on its texts in any order
\* with tables of its own, and the workers' tables are added up in any order.
\* The tables AWARD_FREQ and AWARD_VARIANTS are lines 250-252; the dealing
\* out and the adding up are the design the specification describes.
RECURSIVE SequentialTables(_, _)
SequentialTables(tb, msgs) ==
    IF msgs = <<>> THEN tb
    ELSE SequentialTables(
             Bind(generate_from_text(Head(msgs), tb.freq, tb.variants),
                  LAMBDA r : [freq |-> r.freq, variants |-> r.variants]),
             Tail(msgs))

\* Counter addition: a += b
RECURSIVE CounterSum(_, _)
CounterSum(a, b) ==
    IF b = <<>> THEN a
    ELSE CounterSum(CtrAdd(a, Head(b).key, Head(b).n), Tail(b))

\* the same for a dict of Counters
RECURSIVE VariantsSum(_, _)
VariantsSum(a, b) ==
    IF b = <<>> THEN a
    ELSE VariantsSum(
             IF VariantsHas(a, Head(b).key)
             THEN [i \in DOMAIN a |->
                      IF a[i].key = Head(b).key
                      THEN [a[i] EXCEPT !.ctr = CounterSum(@, Head(b).ctr)]
                      ELSE a[i]]
             ELSE Append(a, Head(b)),
             Tail(b))

MergeTables(a, b) ==
    [freq |-> CounterSum(a.freq, b.freq),
     variants |-> VariantsSum(a.variants, b.variants)]

\* worker w takes the i-th of its remaining texts
WorkerCall(w, i) ==
    /\ pc = "working"
    /\ w \in unmerged
    /\ i \in DOMAIN shards[w]
    /\ \E r \in {generate_from_text(shards[w][i], tables[w].freq, tables[w].variants)} :
          tables' = [tables EXCEPT ![w] = [freq |-> r.freq, variants |-> r.variants]]
    /\ shards' = [shards EXCEPT ![w] = RemoveAt(@, i)]
    /\ UNCHANGED <<pc, unmerged, pool>>
    /\ UNCHANGED <<spikeVars, electVars, extractVars, inferVars, discVars, normVars, runVars>>

\* the tables of a worker that has finished are added to the pool
MergeWorker(w) ==
    /\ pc = "working"
    /\ w \in unmerged
    /\ shards[w] = <<>>
    /\ pool' = MergeTables(pool, tables[w])
    /\ unmerged' = unmerged \ {w}
    /\ pc' = IF unmerged = {w} THEN "merged" ELSE pc
    /\ UNCHANGED <<shards, tables>>
    /\ UNCHANGED <<spikeVars, electVars, extractVars, inferVars, discVars, normVars, runVars>>

\* texts that record "best best" in two spellings, "best best best", or nothing
WorkerTexts ==
    {<<"Best", "Best", "goes to", "Ben">>,
     <<"Best", "best", "goes to", "Ben">>,
     <<"Ben", "wins", "Best", "Best", "Best">>,
     <<"Ben", "wins">>}

\* the shards of a message list under the assignment f of positions to workers
Shard(msgs, f, w) ==
    LET RECURSIVE Pick(_)
        Pick(i) == IF i > Len(msgs) THEN <<>>
                   ELSE IF f[i] = w THEN <<msgs[i]>> \o Pick(i + 1)
                   ELSE Pick(i + 1)
    IN Pick(1)

InitWorkers ==
    /\ pc = "working" /\ stage = "workers"
    /\ \E msgs \in SeqsUpTo(WorkerTexts, WorkersMaxMsgs) :
          /\ input_json = JsonList(msgs)
          /\ \E f \in [DOMAIN msgs -> 1..Workers] :
                shards = [w \in 1..Workers |-> Shard(msgs, f, w)]
    /\ tables = [w \in 1..Workers |-> NoTables]
    /\ unmerged = 1..Workers
    /\ pool = NoTables
    /\ candidates = <<>> /\ diagnostic = <<>>
    /\ SpikeIdle /\ ElectIdle /\ ExtractIdle
    /\ InferIdle /\ DiscIdle /\ NormIdle

(***************************************************************************)
(* Category clustering: infer_canonical_awards_from_learned.py.            *)
(* Here a phrase is the sequence of its characters, because the similarity *)
(* score is computed by difflib on characters.  EnDash stands for U+2013.  *)
(***************************************************************************)
SIMILARITY_FOR_MERGE == 97
MIN_SUPPORT == 3

\* the code points that order the characters of the model
CharCode(c) ==
    CASE c = " " -> 32
      [] c = "-" -> 45
      [] c = "A" -> 65
      [] c = "a" -> 97
      [] c = "b" -> 98
      [] c = "c" -> 99
      [] c = "d" -> 100
      [] c = "e" -> 101
      [] c = "x" -> 120
      [] c = "z" -> 122
      [] OTHER -> 8211

AlphaUpper ==
    <<"A", "B", "C", "D", "E", "F", "G", "H", "I", "J", "K", "L", "M",
      "N", "O", "P", "Q", "R", "S", "T", "U", "V", "W", "X", "Y", "Z">>

AlphaLower ==
    <<"a", "b", "c", "d", "e", "f", "g", "h", "i", "j", "k", "l", "m",
      "n", "o", "p", "q", "r", "s", "t", "u", "v", "w", "x", "y", "z">>

\* str.lower on one character
LowerChar(c) ==
    IF c \in Range(AlphaUpper)
    THEN AlphaLower[CHOOSE i \in DOMAIN AlphaUpper : AlphaUpper[i] = c]
    ELSE c

\* the class DASHES
IsDashChar(c) == c \in {"-", EnDash}

\* the length of the first whitespace-free run of s
WordLen(s) ==
    IF \E i \in DOMAIN s : s[i] = " "
    THEN (CHOOSE i \in DOMAIN s :
              s[i] = " " /\ \A j \in 1..(i - 1) : s[j] # " ") - 1
    ELSE Len(s)

\* s.split()
RECURSIVE SplitWs(_)
SplitWs(s) ==
    IF s = <<>> THEN <<>>
    ELSE IF Head(s) = " " THEN SplitWs(Tail(s))
    ELSE <<SubSeq(s, 1, WordLen(s))>>
             \o SplitWs(SubSeq(s, WordLen(s) + 1, Len(s)))

\* " ".join(words)
RECURSIVE JoinWs(_)
JoinWs(ws) ==
    IF ws = <<>> THEN <<>>
    ELSE IF Len(ws) = 1 THEN ws[1]
    ELSE ws[1] \o <<" ">> \o JoinWs(Tail(ws))

\* WS.sub(" ", s).strip()
CollapseWs(s) == JoinWs(SplitWs(s))

normalize_for_compare(s) ==
    CollapseWs([i \in DOMAIN s |->
                   IF IsDashChar(LowerChar(s[i])) THEN "-" ELSE LowerChar(s[i])])

\* The four replace() calls turn every dash, with or without a space on
\* either side, into an en dash between spaces; the final WS.sub leaves one
\* space on each side.
RECURSIVE DashesSpaced(_)
DashesSpaced(s) ==
    IF s = <<>> THEN <<>>
    ELSE IF IsDashChar(Head(s))
         THEN <<" ", EnDash, " ">> \o DashesSpaced(Tail(s))
         ELSE <<Head(s)>> \o DashesSpaced(Tail(s))

infer_unify_dash_readable(s) == CollapseWs(DashesSpaced(s))

\* a < b for Python strings
RECURSIVE StrLess(_, _)
StrLess(a, b) ==
    IF b = <<>> THEN FALSE
    ELSE IF a = <<>> THEN TRUE
    ELSE IF Head(a) # Head(b) THEN CharCode(Head(a)) < CharCode(Head(b))
    ELSE StrLess(Tail(a), Tail(b))

\* sorted(S) for a set of strings
RECURSIVE SortedStrs(_)
SortedStrs(S) ==
    IF S = {} THEN <<>>
    ELSE LET m == CHOOSE x \in S : \A y \in S \ {x} : StrLess(x, y)
         IN <<m>> \o SortedStrs(S \ {m})

token_set(s) == JoinWs(SortedStrs(Range(SplitWs(normalize_for_compare(s)))))

\* the length of the common run of a from i and b from j
RECURSIVE RunLen(_, _, _, _)
RunLen(a, b, i, j) ==
    IF i > Len(a) \/ j > Len(b) THEN 0
    ELSE IF a[i] # b[j] THEN 0
    ELSE 1 + RunLen(a, b, i + 1, j + 1)

\* SequenceMatcher.find_longest_match: the longest block, and of the longest
\* blocks the one that starts earliest in a, then earliest in b
find_longest_match(a, b) ==
    LET Blocks == {<<i, j, RunLen(a, b, i, j)>> : i \in DOMAIN a, j \in DOMAIN b}
    IN CHOOSE x \in Blocks :
           \A y \in Blocks :
               \/ x[3] > y[3]
               \/ x[3] = y[3] /\ x[1] < y[1]
               \/ x[3] = y[3] /\ x[1] = y[1] /\ x[2] <= y[2]

\* the sum of the sizes of SequenceMatcher.get_matching_blocks
RECURSIVE Matches(_, _)
Matches(a, b) ==
    IF a = <<>> \/ b = <<>> THEN 0
    ELSE Bind(find_longest_match(a, b), LAMBDA x :
           IF x[3] = 0 THEN 0
           ELSE x[3]
                + Matches(SubSeq(a, 1, x[1] - 1), SubSeq(b, 1, x[2] - 1))
                + Matches(SubSeq(a, x[1] + x[3], Len(a)),
                          SubSeq(b, x[2] + x[3], Len(b))))

\* int(round(100 * (2.0 * m / t))): round() takes a half to the even integer
RoundPercent(m, t) ==
    IF t = 0 THEN 100
    ELSE LET q == (200 * m) \div t
             r == (200 * m) % t
         IN IF 2 * r < t THEN q
            ELSE IF 2 * r > t THEN q + 1
            ELSE IF q % 2 = 0 THEN q ELSE q + 1

sim_score(a, b) ==
    Bind(<<token_set(a), token_set(b)>>, LAMBDA p :
        RoundPercent(Matches(p[1], p[2]), Len(p[1]) + Len(p[2])))

\* v.strip()
Strip(s) ==
    IF \A i \in DOMAIN s : s[i] = " " THEN <<>>
    ELSE LET lo == CHOOSE i \in DOMAIN s :
                       s[i] # " " /\ \A j \in 1..(i - 1) : s[j] = " "
             hi == CHOOSE i \in DOMAIN s :
                       s[i] # " " /\ \A j \in (i + 1)..Len(s) : s[j] = " "
         IN SubSeq(s, lo, hi)

\* [(v.strip(), int(c)) for v, c in vs if v and v.strip()]
RECURSIVE StrippedNonEmpty(_)
StrippedNonEmpty(vs) ==
    IF vs = <<>> THEN <<>>
    ELSE IF Strip(Head(vs).key) = <<>> THEN StrippedNonEmpty(Tail(vs))
    ELSE <<[key |-> Strip(Head(vs).key), n |-> Head(vs).n]>>
             \o StrippedNonEmpty(Tail(vs))

\* pick_canonical with the tie on equal counts going to the shorter string
pick_canonical_shorter(variants_with_counts) ==
    LET vs == StrippedNonEmpty(variants_with_counts)
    IN IF vs = <<>> THEN None
       ELSE vs[CHOOSE i \in DOMAIN vs :
                   \A j \in DOMAIN vs :
                       \/ vs[i].n > vs[j].n
                       \/ vs[i].n = vs[j].n /\ Len(vs[i].key) < Len(vs[j].key)
                       \/ vs[i].n = vs[j].n /\ Len(vs[i].key) = Len(vs[j].key)
                            /\ i <= j].key

\* the list is sorted by (count, len) with reverse=True, a stable sort, and
\* its first entry returned: the first of the entries with the largest key
pick_canonical(variants_with_counts) ==
    LET vs == StrippedNonEmpty(variants_with_counts)
    IN IF vs = <<>> THEN None
       ELSE vs[CHOOSE i \in DOMAIN vs :
                   \A j \in DOMAIN vs :
                       \/ vs[i].n > vs[j].n
                       \/ vs[i].n = vs[j].n /\ Len(vs[i].key) > Len(vs[j].key)
                       \/ vs[i].n = vs[j].n /\ Len(vs[i].key) = Len(vs[j].key)
                            /\ i <= j].key

\* [(d.get("text","").strip(), int(d.get("count", 0))) for d in tops
\*  if d.get("text")]
RECURSIVE RowVariants(_)
RowVariants(tops) ==
    IF tops = <<>> THEN <<>>
    ELSE IF Head(tops).text = <<>> THEN RowVariants(Tail(tops))
    ELSE <<[key |-> Strip(Head(tops).text), n |-> Head(tops).count]>>
             \o RowVariants(Tail(tops))

\* the variants of a row, with the fallback to its normalized key
VariantsWithCounts(row) ==
    IF RowVariants(row.top_variants) = <<>> /\ Strip(row.normalized) # <<>>
    THEN <<[key |-> Strip(row.normalized), n |-> row.total_count]>>
    ELSE RowVariants(row.top_variants)

\* step 1 of main: the clusters of the rows with enough support
RECURSIVE AssembleClusters(_)
AssembleClusters(rows) ==
    IF rows = <<>> THEN <<>>
    ELSE IF Head(rows).total_count < MIN_SUPPORT THEN AssembleClusters(Tail(rows))
    ELSE IF pick_canonical(VariantsWithCounts(Head(rows))) = None
         THEN AssembleClusters(Tail(rows))
    ELSE <<[norm_key  |-> Strip(Head(rows).normalized),
            total     |-> Head(rows).total_count,
            canonical |-> infer_unify_dash_readable(
                              pick_canonical(VariantsWithCounts(Head(rows)))),
            variants  |-> VariantsWithCounts(Head(rows))]>>
             \o AssembleClusters(Tail(rows))

\* s.sort(key=lambda r: r["total"], reverse=True): stable
RECURSIVE SortByTotalDesc(_)
SortByTotalDesc(s) ==
    IF s = <<>> THEN <<>>
    ELSE LET i == CHOOSE i \in DOMAIN s :
                      /\ \A j \in DOMAIN s : s[i].total >= s[j].total
                      /\ \A j \in 1..(i - 1) : s[j].total # s[i].total
         IN <<s[i]>> \o SortByTotalDesc(RemoveAt(s, i))

\* Counter(dict(variants)): a repeated key keeps its last count
RECURSIVE CounterOfDict(_)
CounterOfDict(vs) ==
    IF vs = <<>> THEN <<>>
    ELSE LET c == CounterOfDict(SubSeq(vs, 1, Len(vs) - 1))
             v == vs[Len(vs)]
         IN IF CtrHas(c, v.key)
            THEN [c EXCEPT ![CtrIdx(c, v.key)].n = v.n]
            ELSE Append(c, v)

\* for v, cnt in c["variants"]: m["variant_counts"][v] += cnt
RECURSIVE AddVariants(_, _)
AddVariants(counts, vs) ==
    IF vs = <<>> THEN counts
    ELSE AddVariants(CtrAdd(counts, Head(vs).key, Head(vs).n), Tail(vs))

\* max([(m canonical, m total), (c canonical, c total)],
\*     key=lambda x: (x[1], len(x[0])))[0] : max returns the first maximum
BetterCanonical(mc, mt, cc, ct) ==
    IF ct > mt \/ (ct = mt /\ Len(cc) > Len(mc)) THEN cc ELSE mc

\* the merge of c into m with the canonical compared before the totals are
\* added up
MergeIntoComparingOwnTotals(m, c) ==
    [canonical      |-> BetterCanonical(m.canonical, m.total,
                                        c.canonical, c.total),
     total          |-> m.total + c.total,
     variant_counts |-> AddVariants(m.variant_counts, c.variants),
     norm_keys      |-> m.norm_keys \cup {c.norm_key}]

\* the merge of c into m: m's total is raised before the two canonicals are
\* compared by total
MergeInto(m, c) ==
    [canonical      |-> BetterCanonical(m.canonical, m.total + c.total,
                                        c.canonical, c.total),
     total          |-> m.total + c.total,
     variant_counts |-> AddVariants(m.variant_counts, c.variants),
     norm_keys      |-> m.norm_keys \cup {c.norm_key}]

NewMerged(c) ==
    [canonical      |-> c.canonical,
     total          |-> c.total,
     variant_counts |-> CounterOfDict(c.variants),
     norm_keys      |-> IF c.norm_key # <<>> THEN {c.norm_key} ELSE {}]

\* the merge test with its comparison turned round
SimilarAtMost(c, m, thr) == sim_score(c.canonical, m.canonical) <= thr

\* the test of line 104: c is merged into m
Similar(c, m, thr) == sim_score(c.canonical, m.canonical) >= thr

\* one pass of the loop body of step 2 that puts c into every similar cluster
PlaceClusterInAllSimilar(ms, c, thr) ==
    IF \E i \in DOMAIN ms : Similar(c, ms[i], thr)
    THEN [i \in DOMAIN ms |->
             IF Similar(c, ms[i], thr) THEN MergeInto(ms[i], c) ELSE ms[i]]
    ELSE Append(ms, NewMerged(c))

\* one pass of the loop body of step 2: c goes into the first similar merged_clusters
\* cluster, or starts a new one
PlaceCluster(ms, c, thr) ==
    IF \E i \in DOMAIN ms : Similar(c, ms[i], thr)
    THEN Bind(CHOOSE i \in DOMAIN ms :
                  /\ Similar(c, ms[i], thr)
                  /\ \A j \in 1..(i - 1) : ~Similar(c, ms[j], thr),
              LAMBDA i : [ms EXCEPT ![i] = MergeInto(ms[i], c)])
    ELSE Append(ms, NewMerged(c))

\* step 2 of main on a sorted cluster list
RECURSIVE MergeClusters(_, _, _)
MergeClusters(ms, cs, thr) ==
    IF cs = <<>> THEN ms
    ELSE MergeClusters(PlaceCluster(ms, Head(cs), thr), Tail(cs), thr)

\* the keys one merged_clusters cluster writes into variant_map
MapKeysOf(m) ==
    LET raw == Range(Keys(m.variant_counts)) \cup m.norm_keys
    IN raw \cup {normalize_for_compare(k) : k \in raw}

\* step 3 of main: later clusters overwrite the keys of earlier ones
RECURSIVE BuildVariantMap(_)
BuildVariantMap(ms) ==
    IF ms = <<>> THEN <<>>
    ELSE LET before == BuildVariantMap(SubSeq(ms, 1, Len(ms) - 1))
             m == ms[Len(ms)]
         IN [k \in DOMAIN before \cup MapKeysOf(m) |->
                IF k \in MapKeysOf(m)
                THEN infer_unify_dash_readable(m.canonical)
                ELSE before[k]]

Assemble ==
    /\ pc = "learned"
    /\ clusters' = SortByTotalDesc(AssembleClusters(data))
    /\ pc' = "merging"
    /\ UNCHANGED <<data, similarity, merged_clusters, canonical_list, inferred_map>>
    /\ UNCHANGED <<spikeVars, electVars, extractVars, discVars, normVars, runVars, workVars>>

MergeNext ==
    /\ pc = "merging"
    /\ clusters # <<>>
    /\ merged_clusters' = PlaceCluster(merged_clusters, Head(clusters), similarity)
    /\ clusters' = Tail(clusters)
    /\ UNCHANGED <<pc, data, similarity, canonical_list, inferred_map>>
    /\ UNCHANGED <<spikeVars, electVars, extractVars, discVars, normVars, runVars, workVars>>

BuildOutputs ==
    /\ pc = "merging"
    /\ clusters = <<>>
    /\ \E ms \in {SortByTotalDesc(merged_clusters)} :
          /\ merged_clusters' = ms
          /\ canonical_list' =
                 [i \in DOMAIN ms |-> infer_unify_dash_readable(ms[i].canonical)]
          /\ inferred_map' = BuildVariantMap(ms)
    /\ pc' = "inferred"
    /\ UNCHANGED <<data, similarity, clusters>>
    /\ UNCHANGED <<spikeVars, electVars, extractVars, discVars, normVars, runVars, workVars>>

\* the phrases of the learned rows
P_abxd == <<"a", "b", "x", "d">>
P_abcd == <<"a", "b", "c", "d">>
P_abcdee == <<"a", "b", "c", "d", "e", "e">>
P_zzabcd == <<"z", "z", "a", "b", "c", "d">>
P_ab_cd == <<"a", "b", " ", "c", "d">>
P_Ab_cd == <<"A", "b", " ", "c", "d">>
P_cd_ab == <<"c", "d", " ", "a", "b">>
P_ab_dash_cd == <<"a", "b", "-", "c", "d">>

LearnedRow(norm, total, tops) ==
    [normalized |-> norm, total_count |-> total, top_variants |-> tops]

Variant(t, n) == [text |-> t, count |-> n]

LearnedRows ==
    { LearnedRow(P_abxd, 4, <<Variant(P_abxd, 4)>>),
      LearnedRow(P_abcd, 4, <<Variant(P_abcd, 4)>>),
      LearnedRow(P_abcdee, 3, <<Variant(P_abcdee, 3)>>),
      LearnedRow(P_zzabcd, 3, <<Variant(P_zzabcd, 3)>>),
      LearnedRow(P_ab_cd, 4, <<Variant(P_ab_cd, 2), Variant(P_Ab_cd, 2)>>),
      LearnedRow(P_cd_ab, 3, <<Variant(P_cd_ab, 3)>>),
      LearnedRow(P_ab_dash_cd, 3, <<Variant(<<>>, 1)>>),
      LearnedRow(P_abcd, 2, <<Variant(P_abcd, 2)>>) }

Thresholds == {70, 80, SIMILARITY_FOR_MERGE}

InitInfer ==
    /\ pc = "learned"
    /\ data \in SeqsUpTo(LearnedRows, InferMaxRows)
    /\ similarity \in Thresholds
    /\ clusters = <<>> /\ merged_clusters = <<>>
    /\ canonical_list = <<>> /\ inferred_map = <<>>
    /\ SpikeIdle /\ ElectIdle /\ ExtractIdle /\ DiscIdle /\ NormIdle /\ RunIdle /\ WorkIdle

(***************************************************************************)
(* The canonicalizer of candidate_pipeline.py: _canon, _lev_ok,            *)
(* _discover_awards_from_texts, _find_award_in_text and the vote loop of   *)
(* finalize_answers.  Phrases are sequences of characters.                 *)
(***************************************************************************)
Digits == {"0", "1", "2", "3", "4", "5", "6", "7", "8", "9"}

\* \w of the regular expressions
IsWordChar(c) == c \in Range(AlphaUpper) \cup Range(AlphaLower) \cup Digits \cup {"_"}

StartsWith(s, p) == Len(s) >= Len(p) /\ SubSeq(s, 1, Len(p)) = p

\* s.replace(p, r): the occurrences of p are found from left to right and do
\* not overlap
RECURSIVE ReplaceAll(_, _, _)
ReplaceAll(s, p, r) ==
    IF s = <<>> THEN <<>>
    ELSE IF StartsWith(s, p)
         THEN r \o ReplaceAll(SubSeq(s, Len(p) + 1, Len(s)), p, r)
         ELSE <<Head(s)>> \o ReplaceAll(Tail(s), p, r)

\* unidecode on the characters of the model
Unidecode(c) == IF c = EnDash THEN "-" ELSE c

\* the quote characters that the model's phrases can hold, of the class that
\* _canon deletes
QuoteChars == {"'"}

\* re.sub(r"[quotes]", "", s)
RemoveChars(s, cs) == SelectSeq(s, LAMBDA c : c \notin cs)

\* re.sub(r"[-...]+", "-", s): a run of dashes becomes one dash
RECURSIVE CollapseDashRuns(_)
CollapseDashRuns(s) ==
    IF s = <<>> THEN <<>>
    ELSE IF IsDashChar(Head(s))
         THEN IF Len(s) >= 2 /\ IsDashChar(s[2])
              THEN CollapseDashRuns(Tail(s))
              ELSE <<"-">> \o CollapseDashRuns(Tail(s))
         ELSE <<Head(s)>> \o CollapseDashRuns(Tail(s))

\* the characters [a-z0-9 &:\-\(\)/] that _canon keeps
CanonKeeps(c) ==
    c \in Range(AlphaLower) \cup Digits \cup {" ", "&", ":", "-", "(", ")", "/"}

\* \b at position i of s (between s[i-1] and s[i])
WordBoundary(s, i) ==
    (i > 1 /\ i - 1 <= Len(s) /\ IsWordChar(s[i - 1]))
        # (i >= 1 /\ i <= Len(s) /\ IsWordChar(s[i]))

\* w stands at position i of s between two word boundaries
WordAt(s, i, w) ==
    /\ i + Len(w) - 1 <= Len(s)
    /\ SubSeq(s, i, i + Len(w) - 1) = w
    /\ WordBoundary(s, i)
    /\ WordBoundary(s, i + Len(w))

ARTICLES == << <<"t", "h", "e">>, <<"a">>, <<"a", "n">> >>

\* re.sub(r"\b(the|a|an)\b", " ", s), scanning from position i
RECURSIVE ArticlesBlanked(_, _)
ArticlesBlanked(s, i) ==
    IF i > Len(s) THEN <<>>
    ELSE IF \E k \in DOMAIN ARTICLES : WordAt(s, i, ARTICLES[k])
         THEN Bind(CHOOSE k \in DOMAIN ARTICLES :
                       /\ WordAt(s, i, ARTICLES[k])
                       /\ \A j \in 1..(k - 1) : ~WordAt(s, i, ARTICLES[j]),
                   LAMBDA k : <<" ">> \o ArticlesBlanked(s, i + Len(ARTICLES[k])))
         ELSE <<s[i]>> \o ArticlesBlanked(s, i + 1)

TELEVISION == <<"t", "e", "l", "e", "v", "i", "s", "i", "o", "n">>
TV == <<"t", "v">>
AND == <<"a", "n", "d">>

\* _canon with the two synonym replacements left out
canon_without_synonyms(s) ==
    Bind(Strip([i \in DOMAIN s |-> LowerChar(Unidecode(s[i]))]), LAMBDA s1 :
    Bind(CollapseDashRuns(RemoveChars(s1, QuoteChars)), LAMBDA s2 :
    Bind([i \in DOMAIN s2 |-> IF CanonKeeps(s2[i]) THEN s2[i] ELSE " "], LAMBDA s3 :
        CollapseWs(ArticlesBlanked(s3, 1)))))

canon(s) ==
    Bind(Strip([i \in DOMAIN s |-> LowerChar(Unidecode(s[i]))]), LAMBDA s1 :
    Bind(CollapseDashRuns(RemoveChars(s1, QuoteChars)), LAMBDA s2 :
    Bind([i \in DOMAIN s2 |-> IF CanonKeeps(s2[i]) THEN s2[i] ELSE " "], LAMBDA s3 :
    Bind(ReplaceAll(ReplaceAll(s3, TELEVISION, TV), <<"&">>, AND), LAMBDA s4 :
        CollapseWs(ArticlesBlanked(s4, 1))))))

\* _lev_ok with the overlap test on more than 0.6
lev_ok_strict(a, b) ==
    \/ a = b
    \/ LET ta == Range(SplitWs(a))
           tb == Range(SplitWs(b))
       IN /\ ta # {} /\ tb # {}
          /\ 5 * Cardinality(ta \cap tb) > 3 * Cardinality(ta \cup tb)

\* _lev_ok: equal, or the Jaccard overlap of the token sets is at least 0.6
lev_ok(a, b) ==
    \/ a = b
    \/ LET ta == Range(SplitWs(a))
           tb == Range(SplitWs(b))
       IN /\ ta # {} /\ tb # {}
          /\ 5 * Cardinality(ta \cap tb) >= 3 * Cardinality(ta \cup tb)

\* s.strip(cs)
StripChars(s, cs) ==
    IF \A i \in DOMAIN s : s[i] \in cs THEN <<>>
    ELSE LET lo == CHOOSE i \in DOMAIN s :
                       s[i] \notin cs /\ \A j \in 1..(i - 1) : s[j] \in cs
             hi == CHOOSE i \in DOMAIN s :
                       s[i] \notin cs /\ \A j \in (i + 1)..Len(s) : s[j] \in cs
         IN SubSeq(s, lo, hi)

\* re.sub(r"\s*-\s*", " - ", s) followed by re.sub(r"\s+", " ", s): every
\* hyphen ends up between single spaces
RECURSIVE HyphensSpaced(_)
HyphensSpaced(s) ==
    IF s = <<>> THEN <<>>
    ELSE IF Head(s) = "-" THEN <<" ", "-", " ">> \o HyphensSpaced(Tail(s))
    ELSE <<Head(s)>> \o HyphensSpaced(Tail(s))

normalize_award_surface(s) ==
    CollapseWs(HyphensSpaced(Strip(StripChars(s, {" ", "-", ":"}))))

BEST == <<"b", "e", "s", "t">>

\* the characters that end a sentence; [^\n\.!?] is every other character
\* (the texts of the model hold no line break)
SentenceEnd == {".", "!", "?"}

SpanMinChars == 5
SpanMaxChars == 120

\* the number of spaces of s from position i on
RECURSIVE SpacesFrom(_, _)
SpacesFrom(s, i) ==
    IF i > Len(s) \/ s[i] # " " THEN 0 ELSE 1 + SpacesFrom(s, i + 1)

\* "best" stands at position i after a word boundary, whatever its case, and
\* whitespace follows
BestAt(s, i) ==
    /\ i + 4 <= Len(s)
    /\ [j \in 1..4 |-> LowerChar(s[i + j - 1])] = BEST
    /\ WordBoundary(s, i)
    /\ s[i + 4] = " "

\* the ways _AWARD_SPAN can match from position i: <<k, e>> for k spaces
\* taken by \s+ and the match ending before position e, where a word ends
\* and a sentence mark, a comma or the end of the text follows
SpanMatches(s, i) ==
    {<<k, e>> \in (1..SpacesFrom(s, i + 4)) \X ((i + 10)..(Len(s) + 1)) :
        /\ e - (i + 4 + k) >= SpanMinChars
        /\ e - (i + 4 + k) <= SpanMaxChars
        /\ \A j \in (i + 4 + k)..(e - 1) : s[j] \notin SentenceEnd
        /\ IsWordChar(s[e - 1])
        /\ (e > Len(s) \/ s[e] \in SentenceEnd \cup {","})}

\* the end of the match the regex engine finds first: \s+ is greedy, the
\* span lazy
SpanEnd(s, i) ==
    Bind(SpanMatches(s, i), LAMBDA ms :
        (CHOOSE x \in ms :
            \A y \in ms : x[1] > y[1] \/ (x[1] = y[1] /\ x[2] <= y[2]))[2])

\* [m.group(1) for m in _AWARD_SPAN.finditer(t)], scanning from position i
RECURSIVE AwardSpansFrom(_, _)
AwardSpansFrom(s, i) ==
    IF i > Len(s) THEN <<>>
    ELSE IF BestAt(s, i) /\ SpanMatches(s, i) # {}
         THEN <<SubSeq(s, i, SpanEnd(s, i) - 1)>>
                  \o AwardSpansFrom(s, SpanEnd(s, i))
         ELSE AwardSpansFrom(s, i + 1)

KEYWORDS ==
    { <<"a", "c", "t", "o", "r">>,
      <<"a", "c", "t", "r", "e", "s", "s">>,
      <<"d", "i", "r", "e", "c", "t", "o", "r">>,
      <<"s", "c", "r", "e", "e", "n", "p", "l", "a", "y">>,
      <<"p", "i", "c", "t", "u", "r", "e">>,
      <<"s", "e", "r", "i", "e", "s">>,
      <<"t", "v">>,
      <<"s", "o", "n", "g">>,
      <<"s", "c", "o", "r", "e">>,
      <<"a", "n", "i", "m", "a", "t", "e", "d">>,
      <<"f", "o", "r", "e", "i", "g", "n">>,
      <<"s", "u", "p", "p", "o", "r", "t", "i", "n", "g">>,
      <<"d", "r", "a", "m", "a">>,
      <<"c", "o", "m", "e", "d", "y">>,
      <<"m", "u", "s", "i", "c", "a", "l">> }

\* the maximal runs of word characters of s
RECURSIVE WordRuns(_)
WordRuns(s) ==
    IF s = <<>> THEN {}
    ELSE IF ~IsWordChar(Head(s)) THEN WordRuns(Tail(s))
    ELSE LET n == IF \E i \in DOMAIN s : ~IsWordChar(s[i])
                  THEN (CHOOSE i \in DOMAIN s :
                            ~IsWordChar(s[i])
                            /\ \A j \in 1..(i - 1) : IsWordChar(s[j])) - 1
                  ELSE Len(s)
         IN {SubSeq(s, 1, n)} \cup WordRuns(SubSeq(s, n + 1, Len(s)))

\* re.search(r"\b(actor|...|musical)\b", c)
HasKeyword(c) == WordRuns(c) \cap KEYWORDS # {}

\* variants[c][raw] += 1 on the defaultdict of Counters
VarsOf(vs, c) == IF CtrHas(vs, c) THEN vs[CtrIdx(vs, c)].vars ELSE <<>>

VarsAdd(vs, c, raw) ==
    IF CtrHas(vs, c)
    THEN [vs EXCEPT ![CtrIdx(vs, c)].vars = CtrAdd(@, raw, 1)]
    ELSE Append(vs, [key |-> c, vars |-> <<[key |-> raw, n |-> 1]>>])

\* the body of the loop over one text's matches: fv = <<freq, variants>>
RECURSIVE CountSpans(_, _)
CountSpans(fv, spans_) ==
    IF spans_ = <<>> THEN fv
    ELSE Bind(normalize_award_surface(Head(spans_)), LAMBDA raw :
         Bind(canon(raw), LAMBDA c :
            IF HasKeyword(c)
            THEN CountSpans(<<CtrAdd(fv[1], c, 1), VarsAdd(fv[2], c, raw)>>,
                            Tail(spans_))
            ELSE CountSpans(fv, Tail(spans_))))

\* for k, v in variants[c].items(): cl["vars"][k] += v
RECURSIVE AddCounts(_, _)
AddCounts(counts, vs) ==
    IF vs = <<>> THEN counts
    ELSE AddCounts(CtrAdd(counts, Head(vs).key, Head(vs).n), Tail(vs))

\* the placement of one canonical phrase: into the first cluster whose
\* canon it overlaps, or into a new cluster
DiscoverPlace(cls, c, cnt, vs) ==
    IF \E i \in DOMAIN cls : lev_ok(c, cls[i].canon)
    THEN Bind(CHOOSE i \in DOMAIN cls :
                  /\ lev_ok(c, cls[i].canon)
                  /\ \A j \in 1..(i - 1) : ~lev_ok(c, cls[j].canon),
              LAMBDA i : [cls EXCEPT ![i] =
                  [canon |-> @.canon, total |-> @.total + cnt,
                   vars |-> AddCounts(@.vars, VarsOf(vs, c))]])
    ELSE Append(cls, [canon |-> c, total |-> cnt, vars |-> VarsOf(vs, c)])

\* the clusters over freq.most_common()
RECURSIVE DiscoverClustersFrom(_, _, _)
DiscoverClustersFrom(cls, fs, vs) ==
    IF fs = <<>> THEN cls
    ELSE DiscoverClustersFrom(
             DiscoverPlace(cls, Head(fs).key, Head(fs).n, vs), Tail(fs), vs)

DiscoverClusters(freq, vs) ==
    DiscoverClustersFrom(<<>>, SortedByCountDesc(freq), vs)

DISCOVER_MIN_TOTAL == 20

\* the support test of a discovered cluster with the threshold left out
WellSupportedAlways(cl) == cl.total >= 0

\* cl["total"] >= 20
WellSupported(cl) == cl.total >= DISCOVER_MIN_TOTAL

\* max(cl["vars"].items(), key=lambda kv: kv[1])[0]: the first of the most
\* frequent surface forms
TopSurface(vars_) ==
    vars_[CHOOSE i \in DOMAIN vars_ :
              /\ \A j \in DOMAIN vars_ : vars_[i].n >= vars_[j].n
              /\ \A j \in 1..(i - 1) : vars_[j].n < vars_[i].n].key

RECURSIVE AwardsOf(_)
AwardsOf(cls) ==
    IF cls = <<>> THEN <<>>
    ELSE IF WellSupported(Head(cls))
         THEN <<TopSurface(Head(cls).vars)>> \o AwardsOf(Tail(cls))
         ELSE AwardsOf(Tail(cls))

discover_awards_from_texts(freq, vs) == AwardsOf(DiscoverClusters(freq, vs))

\* the texts the discovery pass reads
D_best_actor == <<"b", "e", "s", "t", " ", "a", "c", "t", "o", "r", ".">>
D_best_tv_actor == <<"B", "e", "s", "t", " ", "T", "V", " ", "a", "c", "t", "o", "r">>
D_best_a_song == <<"b", "e", "s", "t", " ", "a", " ", "s", "o", "n", "g", ",">>
D_best_of_all == <<"b", "e", "s", "t", " ", "o", "f", " ", "a", "l", "l">>

DiscoverTexts ==
    {D_best_actor, D_best_tv_actor, D_best_a_song, D_best_of_all}

\* one pass of the loop over texts
DiscoverScan(t) ==
    /\ pc = "scanning"
    /\ \E fv \in {CountSpans(<<disc_freq, disc_variants>>, AwardSpansFrom(t, 1))} :
          /\ disc_freq' = fv[1]
          /\ disc_variants' = fv[2]
    /\ UNCHANGED <<pc, discovered, per_award, replayed>>
    /\ UNCHANGED <<spikeVars, electVars, extractVars, inferVars, normVars, runVars, workVars>>

\* the clustering and the support filter that end _discover_awards_from_texts
DiscoverFinish ==
    /\ pc = "scanning"
    /\ discovered' = discover_awards_from_texts(disc_freq, disc_variants)
    /\ pc' = "discovered"
    /\ UNCHANGED <<disc_freq, disc_variants, per_award, replayed>>
    /\ UNCHANGED <<spikeVars, electVars, extractVars, inferVars, normVars, runVars, workVars>>

InitDiscover ==
    /\ pc = "scanning"
    /\ disc_freq = <<>> /\ disc_variants = <<>>
    /\ discovered = <<>> /\ per_award = <<>> /\ replayed = <<>>
    /\ SpikeIdle /\ ElectIdle /\ ExtractIdle /\ InferIdle /\ NormIdle /\ RunIdle /\ WorkIdle

\* None where a character string is expected
NoString == <<"None">>

\* p in s
IsSubstring(p, s) ==
    \E i \in 1..(Len(s) - Len(p) + 1) : SubSeq(s, i, i + Len(p) - 1) = p

\* the loop of _find_award_in_text over the discovered awards from the i-th
\* on, with best and score as they stand
RECURSIVE FindAwardFrom(_, _, _, _, _)
FindAwardFrom(t, das, i, best, score) ==
    IF i > Len(das) THEN best
    ELSE Bind(canon(das[i]), LAMBDA ca :
            IF IsSubstring(ca, t) /\ Len(ca) > score
            THEN FindAwardFrom(t, das, i + 1, das[i], Len(ca))
            ELSE FindAwardFrom(t, das, i + 1, best, score))

find_award_in_text(txt, das) == FindAwardFrom(canon(txt), das, 1, NoString, 0)

\* c.get(key) or "" on a candidate dict: an absent key reads as None
GetOrEmpty(v) == IF v = NoString THEN <<>> ELSE v

\* per_award[aw]["winner"][target] += 1; per_award[aw]["ts"].append(ts)
PerAwardHas(pa, aw) == \E i \in DOMAIN pa : pa[i].key = aw

PerAwardVote(pa, aw, target, ts) ==
    IF PerAwardHas(pa, aw)
    THEN [pa EXCEPT ![CHOOSE i \in DOMAIN pa : pa[i].key = aw] =
             [key |-> @.key, winner |-> CtrAdd(@.winner, target, 1),
              ts |-> Append(@.ts, ts)]]
    ELSE Append(pa, [key |-> aw, winner |-> <<[key |-> target, n |-> 1]>>,
                     ts |-> <<ts>>])

\* the body of the vote loop of finalize_answers for one candidate dict
VoteStep(pa, c, das) ==
    Bind(GetOrEmpty(c.award), LAMBDA award :
    Bind(IF GetOrEmpty(c.subject) # <<>> THEN c.subject
         ELSE GetOrEmpty(c.target), LAMBDA target :
        IF award = <<>> \/ target = <<>> THEN pa
        ELSE Bind(find_award_in_text(award, das), LAMBDA found :
                PerAwardVote(pa, IF found = NoString THEN award ELSE found,
                             target, c.timestamp))))

FinalizeVote(c) ==
    /\ pc = "voting"
    /\ per_award' = VoteStep(per_award, c, discovered)
    /\ replayed' = Append(replayed, c)
    /\ UNCHANGED <<pc, disc_freq, disc_variants, discovered>>
    /\ UNCHANGED <<spikeVars, electVars, extractVars, inferVars, normVars, runVars, workVars>>

\* surface forms of discovered awards, raw category phrases and entities
A_best_actor == <<"b", "e", "s", "t", " ", "a", "c", "t", "o", "r">>
A_Best_Actor_in_TV_Drama ==
    <<"B", "e", "s", "t", " ", "A", "c", "t", "o", "r", " ", "i", "n", " ",
      "T", "V", " ", "D", "r", "a", "m", "a">>
A_best_a_song == <<"b", "e", "s", "t", " ", "a", " ", "s", "o", "n", "g">>
Q_Best_Actor_in_a_TV_Drama ==
    <<"B", "e", "s", "t", " ", "A", "c", "t", "o", "r", " ", "i", "n", " ",
      "a", " ", "T", "V", " ", "D", "r", "a", "m", "a", "!">>
Q_best_song == <<"b", "e", "s", "t", " ", "s", "o", "n", "g">>
Q_best_director ==
    <<"b", "e", "s", "t", " ", "d", "i", "r", "e", "c", "t", "o", "r">>
N_Ben == <<"B", "e", "n">>
N_Amy == <<"A", "m", "y">>

DiscoveredPool == {A_best_actor, A_Best_Actor_in_TV_Drama, A_best_a_song}

\* the lists of one or two awards that a discovery pass can return
DiscoveredLists ==
    {das \in SeqsUpTo(DiscoveredPool, 2) :
        \A i, j \in DOMAIN das : i # j => das[i] # das[j]}

\* a dict with the keys finalize_answers reads
VoteDict(award, subject, target) ==
    [award |-> award, award_name |-> NoString, subject |-> subject,
     target |-> target, timestamp |-> None]

\* asdict(Candidate) of a candidate of generate_from_text: rule_id,
\* award_name, anchor_text, subject
CandidateDict(award_name, subject) ==
    [award |-> NoString, award_name |-> award_name, subject |-> subject,
     target |-> NoString, timestamp |-> None]

FinalizeCandidates ==
    {VoteDict(q, N_Ben, NoString) :
        q \in {Q_Best_Actor_in_a_TV_Drama, Q_best_song, Q_best_director}}
    \cup {CandidateDict(q, N_Ben) :
        q \in {Q_Best_Actor_in_a_TV_Drama, Q_best_director}}
    \cup {VoteDict(Q_Best_Actor_in_a_TV_Drama, NoString, N_Amy),
          VoteDict(<<>>, N_Amy, NoString)}

InitFinalize ==
    /\ pc = "voting"
    /\ discovered \in DiscoveredLists
    /\ per_award = <<>> /\ replayed = <<>>
    /\ disc_freq = <<>> /\ disc_variants = <<>>
    /\ SpikeIdle /\ ElectIdle /\ ExtractIdle /\ InferIdle /\ NormIdle /\ RunIdle /\ WorkIdle

(***************************************************************************)
(* The three phrase normalizers applied to character strings:              *)
(* candidate_pipeline.normalize_text, candidate_pipeline._canon and        *)
(* winners_from_candidates.normalize_award_key.                            *)
(***************************************************************************)
\* \S+ and \w+ from position i of s: the number of characters matched
RECURSIVE NonSpaceRun(_, _)
NonSpaceRun(s, i) ==
    IF i > Len(s) \/ s[i] = " " THEN 0 ELSE 1 + NonSpaceRun(s, i + 1)

RECURSIVE WordRun(_, _)
WordRun(s, i) ==
    IF i > Len(s) \/ ~IsWordChar(s[i]) THEN 0 ELSE 1 + WordRun(s, i + 1)

HTTP == <<"h", "t", "t", "p", ":", "/", "/">>
HTTPS == <<"h", "t", "t", "p", "s", ":", "/", "/">>

\* the length of the match of URL, HANDLE or HASHTAG at position i, 0 for
\* no match
PatternLenAt(kind, s, i) ==
    LET rest == SubSeq(s, i, Len(s))
    IN CASE kind = "URL" ->
              IF StartsWith(rest, HTTPS) /\ NonSpaceRun(s, i + 8) > 0
              THEN 8 + NonSpaceRun(s, i + 8)
              ELSE IF StartsWith(rest, HTTP) /\ NonSpaceRun(s, i + 7) > 0
              THEN 7 + NonSpaceRun(s, i + 7)
              ELSE 0
         [] kind = "HANDLE" ->
              IF s[i] = "@" /\ WordRun(s, i + 1) > 0
              THEN 1 + WordRun(s, i + 1) ELSE 0
         [] OTHER ->
              IF s[i] = "#" /\ WordRun(s, i + 1) > 0
              THEN 1 + WordRun(s, i + 1) ELSE 0

\* PATTERN.sub(" ", s), scanning from position i
RECURSIVE PatternBlanked(_, _, _)
PatternBlanked(kind, s, i) ==
    IF i > Len(s) THEN <<>>
    ELSE IF PatternLenAt(kind, s, i) > 0
         THEN <<" ">> \o PatternBlanked(kind, s, i + PatternLenAt(kind, s, i))
         ELSE <<s[i]>> \o PatternBlanked(kind, s, i + 1)

\* the characters of PUNCT_STRIP that the model's phrases can hold
PunctStrip == {"'", "(", ")", "{", "}", "[", "]"}

SP_TV_SP == <<" ", "t", "v", " ">>
SP_TELEVISION_SP == <<" ">> \o TELEVISION \o <<" ">>

\* s.lower().replace("&", "and").replace(" tv ", " television ") and the
\* final SPACE.sub(" ", s).strip(), shared by both functions
SynonymsAndSpaces(s) ==
    CollapseWs(ReplaceAll(ReplaceAll([i \in DOMAIN s |-> LowerChar(s[i])],
                                     <<"&">>, AND),
                          SP_TV_SP, SP_TELEVISION_SP))

\* candidate_pipeline.normalize_text on a character string
normalize_text_chars(s) ==
    Bind(PatternBlanked("URL", [i \in DOMAIN s |-> Unidecode(s[i])], 1), LAMBDA s1 :
    Bind(PatternBlanked("HASHTAG", PatternBlanked("HANDLE", s1, 1), 1), LAMBDA s2 :
        SynonymsAndSpaces([i \in DOMAIN s2 |->
            IF IsDashChar(s2[i]) THEN "-"
            ELSE IF s2[i] \in PunctStrip THEN " " ELSE s2[i]])))

\* winners_from_candidates.normalize_award_key on a character string
normalize_award_key_chars(s) ==
    SynonymsAndSpaces([i \in DOMAIN s |-> IF IsDashChar(s[i]) THEN "-" ELSE s[i]])

NormalizerNames == {"normalize_text", "_canon", "normalize_award_key"}

Normalized(fn, s) ==
    CASE fn = "normalize_text" -> normalize_text_chars(s)
      [] fn = "_canon" -> canon(s)
      [] OTHER -> normalize_award_key_chars(s)

\* the pieces the phrases to normalize are made of
NormFragments ==
    { <<"x", " ">>, <<"t", "v", " ">>, <<"T", "V">>, TELEVISION \o <<" ">>,
      <<"&", " ">>, <<"y">>, <<"-">>, <<"a", " ">>, <<"#">> }

RECURSIVE Flatten(_)
Flatten(fs) == IF fs = <<>> THEN <<>> ELSE Head(fs) \o Flatten(Tail(fs))

NormPhrases == {Flatten(fs) : fs \in SeqsUpTo(NormFragments, NormMaxParts)}

NormalizeOnce ==
    /\ pc = "phrase"
    /\ norm_once' = Normalized(norm_fn, norm_in)
    /\ pc' = "once"
    /\ UNCHANGED <<norm_fn, norm_in, norm_twice>>
    /\ UNCHANGED <<spikeVars, electVars, extractVars, inferVars, discVars, runVars, workVars>>

NormalizeAgain ==
    /\ pc = "once"
    /\ norm_twice' = Normalized(norm_fn, norm_once)
    /\ pc' = "twice"
    /\ UNCHANGED <<norm_fn, norm_in, norm_once>>
    /\ UNCHANGED <<spikeVars, electVars, extractVars, inferVars, discVars, runVars, workVars>>

InitNormalize ==
    /\ pc = "phrase"
    /\ norm_fn \in NormalizerNames
    /\ norm_in \in NormPhrases
    /\ norm_once = <<>> /\ norm_twice = <<>>
    /\ SpikeIdle /\ ElectIdle /\ ExtractIdle /\ InferIdle /\ DiscIdle /\ RunIdle /\ WorkIdle

(***************************************************************************)
(* Specifications.                                                         *)
(***************************************************************************)
\* The detector's run over a loaded tweet array.
NextSpikes == BuildHist \/ TopBins \/ ExpandAndMerge \/ SelectTweets

SpecSpikes == InitSpikes /\ [][NextSpikes]_vars

\* expand_and_merge applied to any peak list and radius.
NextMerge == ExpandAndMergeCall

SpecMerge == InitMerge /\ [][NextMerge]_vars

\* The voter's run over a candidate list, one candidate per step.
NextElect ==
    \/ \E c \in ElectCandidates : seen < ElectMaxCands /\ Tally(c)
    \/ Elect
    \/ NoUsableCandidates

SpecElect == InitElect /\ [][NextElect]_vars

\* The voter on one award with many people voted for.
NextRunners ==
    \/ \E c \in RunnerCandidates : seen < RunnersMaxCands /\ Tally(c)
    \/ Elect

SpecRunners == InitRunners /\ [][NextRunners]_vars

\* The election step on any two-person tally of up to ShareMaxTotal votes.
NextShare == Elect

SpecShare == InitShare /\ [][NextShare]_vars

\* One text through either extractor, from fresh tables.
NextExtract ==
    \/ calls < 1 /\ \E t \in ExtractTexts : GenerateFromText(t)
    \/ calls < 1 /\ \E t \in ExtractTexts : DirtyGenerateFromText(t)

SpecExtract == InitExtract /\ [][NextExtract]_vars

\* A run of candidate_pipeline over several texts, the tables growing.
NextRepeat == calls < MaxCalls /\ \E t \in RepeatTexts : GenerateFromText(t)

SpecRepeat == InitExtract /\ [][NextRepeat]_vars

\* The clustering run of infer_canonical_awards_from_learned.py.
NextInfer == Assemble \/ MergeNext \/ BuildOutputs

\* The discovery pass of candidate_pipeline.py over a stream of texts.
NextDiscover ==
    \/ CtrTotal(disc_freq) < DiscoverMaxTexts
          /\ \E t \in DiscoverTexts : DiscoverScan(t)
    \/ DiscoverFinish

\* The vote loop of finalize_answers over a list of candidate dicts.
NextFinalize ==
    Len(replayed) < FinalizeMaxCands
        /\ \E c \in FinalizeCandidates : FinalizeVote(c)

SpecFinalize == InitFinalize /\ [][NextFinalize]_vars

\* A normalizer applied to a phrase, and again to its result.
NextNormalize == NormalizeOnce \/ NormalizeAgain

SpecNormalize == InitNormalize /\ [][NextNormalize]_vars

\* Each stage run from its input file: the detector, the extractor called
\* on every message in turn, the election over the candidate list in order.
NextStages ==
    \/ LoadJsonArray
    \/ (stage = "detector" /\ NextSpikes)
    \/ (stage = "extractor" /\ calls < Len(input_json.v)
            /\ GenerateFromText(input_json.v[calls + 1]))
    \/ LoadCandidates
    \/ (stage = "election" /\ seen < Len(candidates)
            /\ Tally(candidates[seen + 1]))
    \/ (stage = "election" /\ seen = Len(candidates) /\ Elect)
    \/ (stage = "election" /\ seen = Len(candidates) /\ NoUsableCandidates)

SpecStages ==
    (InitDetector \/ InitExtractor \/ InitElection) /\ [][NextStages]_vars

\* The election over a stored candidate list, in list order.
NextReplay ==
    \/ (seen < Len(candidates) /\ Tally(candidates[seen + 1]))
    \/ (seen = Len(candidates) /\ Elect)
    \/ (seen = Len(candidates) /\ NoUsableCandidates)

SpecReplay == InitReplay /\ [][NextReplay]_vars

\* The extractor run by workers over a message list.
NextWorkers ==
    \/ \E w \in 1..Workers : \E i \in 1..WorkersMaxMsgs : WorkerCall(w, i)
    \/ \E w \in 1..Workers : MergeWorker(w)

SpecWorkers == InitWorkers /\ [][NextWorkers]_vars

\* Both clustering passes, each from its own start.
SpecCanonicalizer ==
    (InitInfer \/ InitDiscover) /\ [][NextInfer \/ NextDiscover]_vars

(***************************************************************************)
(* Claims.                                                                 *)
(***************************************************************************)
Contains(win, sp) == win[1] <= sp[1] /\ sp[2] <= win[2]

\* C1: for every peak list and radius r >= 0, the windows expand_and_merge
\* returns are sorted by start ascending and pairwise non-overlapping, and
\* every expansion [p - r, p + r] lies in exactly one returned window.
C1_MergeSortedDisjointCovering ==
    pc = "spans" =>
        /\ \A i, j \in DOMAIN spans : i < j => spans[i][1] <= spans[j][1]
        /\ \A i, j \in DOMAIN spans :
              i # j => (spans[i][2] < spans[j][1] \/ spans[j][2] < spans[i][1])
        /\ \A n \in DOMAIN peaks :
              Cardinality({i \in DOMAIN spans :
                  Contains(spans[i], <<peaks[n] - window_min, peaks[n] + window_min>>)}) = 1

\* C1 witness: four peaks, two of whose expansions were merged, two windows.
C1_Witness ==
    /\ pc = "spans"
    /\ window_min = 1
    /\ peaks = <<5, 0, 1, 0>>
    /\ spans = <<<<-1, 2>>, <<4, 6>>>>

\* The selection the claim describes: by count descending, ties by bucket
\* index ascending.
RECURSIVE SortedByCountThenKey(_)
SortedByCountThenKey(c) ==
    IF c = <<>> THEN <<>>
    ELSE LET i == CHOOSE i \in DOMAIN c :
                    \A j \in DOMAIN c :
                        \/ c[j].n < c[i].n
                        \/ (c[j].n = c[i].n /\ c[i].key <= c[j].key)
         IN <<c[i]>> \o SortedByCountThenKey(RemoveAt(c, i))

\* C2: top_bins selects the top_k buckets by count descending, ties between
\* equal counts broken by bucket index ascending, so the peaks (and with
\* them the windows) depend only on the bucket -> count histogram.
C2_TopBinsTiesByBucketIndex ==
    pc \in {"peaks", "spans", "selected"} =>
        /\ peaks = Keys(Take(SortedByCountThenKey(hist), top_k))
        /\ pc # "peaks" =>
              spans = expand_and_merge(Keys(Take(SortedByCountThenKey(hist), top_k)),
                                       window_min)

\* The result written for the tally entry v, if any
ResultsFor(v) ==
    {i \in DOMAIN winners : winners[i].award = unify_dash_readable(v.award)}

\* C3: the election picks, for each category, an entity whose vote count is
\* the maximum over the entities voted for in that category, and reports
\* that maximum as votes_for_winner.
C3_WinnerHasMaxVotes ==
    pc = "written" =>
        \A i \in DOMAIN votes :
            \E r \in ResultsFor(votes[i]) :
                /\ CtrHas(votes[i].ctr, winners[r].winner)
                /\ winners[r].votes_for_winner = CtrGet(votes[i].ctr, winners[r].winner)
                /\ \A j \in DOMAIN votes[i].ctr :
                       votes[i].ctr[j].n <= winners[r].votes_for_winner

\* C3 witness: two categories were elected, and in one of them the winner
\* is not the entity that was voted for first.
C3_Witness ==
    /\ pc = "written"
    /\ Len(winners) = 2
    /\ \E i \in DOMAIN votes :
           /\ Len(votes[i].ctr) >= 2
           /\ \E r \in ResultsFor(votes[i]) :
                  winners[r].winner # votes[i].ctr[1].key

\* C4 as stated: the low-confidence flag equals (reported winner_share <
\* 0.55), the reported share being the 4-decimal rounded value
\* (in ten-thousandths: 5500).
C4_FlagEqualsReportedShareBelow ==
    pc = "written" =>
        \A r \in DOMAIN winners :
            winners[r].low_confidence = (winners[r].winner_share < 5500)

\* C4 amended: the flag equals (votes_for_winner / total_votes < 0.55) on the
\* quotient before rounding; the reported share, rounded to 4 decimals, is
\* below 0.55 only with the flag set and above 0.55 only with it clear,
\* while a reported share of exactly 0.55 goes with either.
C4_FlagEqualsExactShareBelow ==
    pc = "written" =>
        \A r \in DOMAIN winners :
            /\ winners[r].low_confidence =
                   (20 * winners[r].votes_for_winner
                        < 11 * winners[r].total_votes_for_award)
            /\ winners[r].winner_share < 5500 => winners[r].low_confidence
            /\ winners[r].winner_share > 5500 => ~winners[r].low_confidence

\* C4 witness: a result flagged low-confidence whose reported share is 0.55.
C4_Witness ==
    /\ pc = "written"
    /\ \E r \in DOMAIN winners :
           /\ winners[r].low_confidence
           /\ winners[r].winner_share = 5500

\* The runner-up list of result r is drawn from ctr, without the winner,
\* by vote count descending, and nobody left out has more votes than
\* somebody listed.
RunnerUpsAreTopOthers(r, ctr) ==
    LET ru == winners[r].runner_up
    IN /\ \A k \in DOMAIN ru :
              /\ ru[k].key # winners[r].winner
              /\ CtrHas(ctr, ru[k].key)
              /\ ru[k].n = CtrGet(ctr, ru[k].key)
       /\ \A k, l \in DOMAIN ru : k < l => (ru[k].n >= ru[l].n /\ ru[k].key # ru[l].key)
       /\ \A j \in DOMAIN ctr :
              (ctr[j].key # winners[r].winner /\ ~CtrHas(ru, ctr[j].key))
                  => \A k \in DOMAIN ru : ctr[j].n <= ru[k].n

\* C5 as stated: a category with n voted entities reports min(5, n - 1)
\* runner-ups, the highest-voted entities other than the winner, by vote
\* count descending.
C5_UpToFiveRunnerUps ==
    pc = "written" =>
        \A i \in DOMAIN votes :
            \E r \in ResultsFor(votes[i]) :
                /\ Len(winners[r].runner_up) = Min2(5, Len(votes[i].ctr) - 1)
                /\ RunnerUpsAreTopOthers(r, votes[i].ctr)

\* C5 amended: a category with n voted entities reports min(4, n - 1)
\* runner-ups (the top five including the winner, the winner dropped): the
\* highest-voted entities other than the winner, by vote count descending.
C5_UpToFourRunnerUps ==
    pc = "written" =>
        \A i \in DOMAIN votes :
            \E r \in ResultsFor(votes[i]) :
                /\ Len(winners[r].runner_up) = Min2(4, Len(votes[i].ctr) - 1)
                /\ RunnerUpsAreTopOthers(r, votes[i].ctr)

\* C5 witness: six entities were voted for in a category, four runner-ups
\* are reported, and the winner is not the entity voted for first.
C5_Witness ==
    /\ pc = "written"
    /\ Len(votes) = 1
    /\ Len(votes[1].ctr) = 6
    /\ Len(winners[1].runner_up) = 4
    /\ winners[1].winner # votes[1].ctr[1].key

\* What the rules and the extractor return from empty tables
FreshWinB(t) == TryWinB(t, <<>>, <<>>).cands

FreshWinA(t) == TryWinA(t, <<>>, <<>>).cands

Fresh(t) == generate_from_text(t, <<>>, <<>>).cands

\* The link phrase of WIN_B matches and its entity side has no PERSON
WinBLinkNoEntity(t) ==
    \E sb \in {split3(t, WIN_B)} : sb # None /\ filter_name(sb.R) = <<>>

\* C6: generate_from_text tries WIN_B before WIN_A and stops at the first
\* rule that succeeds: it returns at most one candidate, and when WIN_B
\* succeeds on the text the candidate is WIN_B's and none is WIN_A's.
C6_WinBBeforeWinAAtMostOne ==
    pc = "extracted" =>
        /\ Len(cands) <= 1
        /\ FreshWinB(text) # <<>> =>
               /\ cands = FreshWinB(text)
               /\ \A i \in DOMAIN cands : cands[i].rule_id # "WIN_A"

\* C6 witness: both rules would succeed on the text, WIN_B's candidate is
\* the one returned.
C6_Witness ==
    /\ pc = "extracted"
    /\ FreshWinA(text) # <<>>
    /\ FreshWinB(text) # <<>>
    /\ cands = FreshWinB(text)

\* The candidate WIN_A of candidate_pipeline_dirty yields on its own
DirtyFreshWinA(t) ==
    CHOOSE r \in {IF xa # None
                  THEN DirtyRule("WIN_A", xa, xa.L, xa.R, <<>>, <<>>).cands
                  ELSE <<>> : xa \in {split3(t, WIN_A)}} : TRUE

PersonCategory(award) ==
    \E i \in DOMAIN award :
        Lower(award[i]) \in {"actor", "actress", "director", "score", "screenplay"}

\* The side of the text the rule of candidate c takes its entity from
EntitySide(c) ==
    IF c.rule_id = "WIN_B" THEN split3(text, WIN_B).R ELSE split3(text, WIN_A).L

C10_AwardHasBestAndMinLength ==
    pc = "extracted" =>
        /\ \A i \in DOMAIN cands :
               /\ HasBest(cands[i].award_name)
               /\ Len(Join(normalize_text(cands[i].award_name))) >= 8
               /\ \E sp \in {split3(text, IF cands[i].rule_id = "WIN_B"
                                          THEN WIN_B ELSE WIN_A)} :
                      HasBest(IF cands[i].rule_id = "WIN_B" THEN sp.L ELSE sp.R)
        /\ ~HasBest(text) => cands = <<>>

\* C10 witness: a later call of the run returned a candidate whose
\* normalized category phrase has exactly 8 characters.
C10_Witness ==
    /\ pc = "extracted"
    /\ calls = 2
    /\ cands # <<>>
    /\ Len(Join(normalize_text(cands[1].award_name))) = 8

\* the variants of a cluster with the largest count and, of these, the
\* largest length
TopVariants(counts) ==
    {counts[i].key : i \in
        {i \in DOMAIN counts :
            \A j \in DOMAIN counts :
                \/ counts[i].n > counts[j].n
                \/ counts[i].n = counts[j].n
                     /\ Len(counts[i].key) >= Len(counts[j].key)}}

\* C11: at every point of the clustering pass the canonical form of each
\* merged cluster is, up to the spelling of dashes, the surface variant with
\* the largest count among the cluster's variant counts, ties going to the
\* longer string; this covers the clusters that have taken in another one.
C11_CanonicalIsTopVariant ==
    pc \in {"merging", "inferred"} =>
        \A i \in DOMAIN merged_clusters :
            \E v \in TopVariants(merged_clusters[i].variant_counts) :
                merged_clusters[i].canonical = infer_unify_dash_readable(v)

\* the number of merged clusters a whole pass over the rows leaves at
\* threshold thr
ClusterCount(rows, thr) ==
    Len(MergeClusters(<<>>, SortByTotalDesc(AssembleClusters(rows)), thr))

\* C12: raising the similarity threshold never increases the number of
\* merges: over the same rows a pass at a higher threshold ends with at
\* least as many clusters as the pass at the lower one.
C12_ClustersAntitoneInThreshold ==
    pc = "inferred" =>
        \A t \in Thresholds :
            t > similarity => ClusterCount(data, t) >= Len(merged_clusters)

\* C12 amended: for one placement against the same merged clusters, raising
\* the threshold never turns the start of a new cluster into a merge.
C12_PlacementAntitoneInThreshold ==
    (pc = "merging" /\ clusters # <<>>) =>
        \A t \in Thresholds :
            t > similarity =>
                Len(PlaceCluster(merged_clusters, Head(clusters), t))
                    >= Len(PlaceCluster(merged_clusters, Head(clusters), similarity))

\* C12 witness: the next cluster is merged at the run's threshold and would
\* start a cluster of its own at a higher one.
C12_Witness ==
    /\ pc = "merging"
    /\ clusters # <<>>
    /\ similarity = 70
    /\ Len(PlaceCluster(merged_clusters, Head(clusters), similarity))
           = Len(merged_clusters)
    /\ Len(PlaceCluster(merged_clusters, Head(clusters), 80))
           = Len(merged_clusters) + 1

\* the sum of total_count over the rows that step 1 of main keeps
RECURSIVE KeptSupport(_)
KeptSupport(rows) ==
    IF rows = <<>> THEN 0
    ELSE (IF Head(rows).total_count >= 3
             /\ pick_canonical(VariantsWithCounts(Head(rows))) # None
          THEN Head(rows).total_count ELSE 0) + KeptSupport(Tail(rows))

RECURSIVE SumTotals(_)
SumTotals(ms) == IF ms = <<>> THEN 0 ELSE Head(ms).total + SumTotals(Tail(ms))

\* C13: a cluster is in the final output only with enough support: every
\* canonical name written by the category clustering stands for a cluster of
\* total support 3 or more, rows of less support adding nothing to any
\* cluster, and every award returned by the discovery pass is the surface
\* form of a cluster seen 20 times or more.
C13_RetainedClustersMeetSupport ==
    /\ pc = "inferred" =>
          /\ Len(canonical_list) = Len(merged_clusters)
          /\ \A i \in DOMAIN merged_clusters : merged_clusters[i].total >= 3
          /\ SumTotals(merged_clusters) = KeptSupport(data)
    /\ pc = "discovered" =>
          \A i \in DOMAIN discovered :
              \E cl \in Range(DiscoverClusters(disc_freq, disc_variants)) :
                  /\ TopSurface(cl.vars) = discovered[i]
                  /\ CtrTotal(cl.vars) >= 20

\* C13 witness: of 21 counted phrases one cluster reached exactly 20 through
\* two spellings and was returned, the other cluster was not.
C13_Witness ==
    /\ pc = "discovered"
    /\ CtrTotal(disc_freq) = 21
    /\ Len(disc_freq) = 3
    /\ Len(discovered) = 1
    /\ \E cl \in Range(DiscoverClusters(disc_freq, disc_variants)) :
           cl.total = 20 /\ Len(cl.vars) = 2

\* the category phrase and the entity a candidate dict carries
CategoryPhrase(c) ==
    IF GetOrEmpty(c.award) # <<>> THEN c.award ELSE GetOrEmpty(c.award_name)

EntityOf(c) ==
    IF GetOrEmpty(c.subject) # <<>> THEN c.subject ELSE GetOrEmpty(c.target)

\* the known award whose normalized form is contained in the normalized
\* query, the longest such form first, or the query itself
LongestContained(q, das) ==
    LET hits == {i \in DOMAIN das : IsSubstring(canon(das[i]), canon(q))}
    IN IF hits = {} THEN q
       ELSE das[CHOOSE i \in hits :
                    \A j \in hits :
                        \/ Len(canon(das[i])) > Len(canon(das[j]))
                        \/ Len(canon(das[i])) = Len(canon(das[j])) /\ i <= j]

VotesFor(pa, aw, target) ==
    IF PerAwardHas(pa, aw)
    THEN CtrGet(pa[CHOOSE i \in DOMAIN pa : pa[i].key = aw].winner, target)
    ELSE 0

VotesOwed(cs, aw, target) ==
    Cardinality({i \in DOMAIN cs :
        /\ CategoryPhrase(cs[i]) # <<>>
        /\ EntityOf(cs[i]) # <<>>
        /\ LongestContained(CategoryPhrase(cs[i]), discovered) = aw
        /\ EntityOf(cs[i]) = target})

\* C14: every replayed candidate that carries a category phrase and an
\* entity has its vote counted under the known award whose normalized form
\* is contained in the normalized phrase, the longest such form first, or
\* under the phrase itself when no known award is contained; no such vote
\* is dropped.
C14_VoteCountedUnderLongestContained ==
    pc = "voting" =>
        \A i \in DOMAIN replayed :
            (CategoryPhrase(replayed[i]) # <<>> /\ EntityOf(replayed[i]) # <<>>)
                => VotesFor(per_award,
                            LongestContained(CategoryPhrase(replayed[i]), discovered),
                            EntityOf(replayed[i]))
                     = VotesOwed(replayed,
                            LongestContained(CategoryPhrase(replayed[i]), discovered),
                            EntityOf(replayed[i]))

\* The same for the candidates that carry their phrase under the key
\* "award", the one the vote loop reads.
AwardKeyedVotesFollowLookup ==
    (pc = "voting" /\ \A i \in DOMAIN replayed : replayed[i].award_name = NoString)
        => C14_VoteCountedUnderLongestContained

\* C15: normalization is idempotent: for normalize_text, _canon and
\* normalize_award_key, normalizing a normalized phrase gives it back.
C15_NormalizeTwiceIsNormalizeOnce ==
    pc = "twice" => norm_twice = norm_once

\* the phrase with every whitespace-delimited "tv", in any case, spelled
\* "television"
TvSpelledOut(s) ==
    JoinWs([i \in DOMAIN SplitWs(s) |->
               IF [j \in DOMAIN SplitWs(s)[i] |-> LowerChar(SplitWs(s)[i][j])] = TV
               THEN TELEVISION ELSE SplitWs(s)[i]])

\* C16: normalization maps "&" to "and" and "tv" to "television": a
\* normalized phrase holds no "&" and no whitespace-delimited token "tv",
\* wherever the token stood, and a phrase normalizes to the same key as the
\* phrase with "television" for "tv".
C16_AmpersandAndTvMapped ==
    pc = "once" =>
        /\ "&" \notin Range(norm_once)
        /\ TV \notin Range(SplitWs(norm_once))
        /\ Normalized(norm_fn, TvSpelledOut(norm_in)) = norm_once

\* the message counts for bucket b: it matches the keyword pattern, is not
\* a left-out retweet, and its timestamp is an integer that falls into b
CountsFor(t, b) ==
    /\ KeywordMatch(t.text)
    /\ (include_rt \/ ~StartsWithRT(t.text))
    /\ t.timestamp_ms.k = "int"
    /\ t.timestamp_ms.v \div 60000 = b

\* C17: build_hist gives every bucket b exactly the number of relevant
\* messages with a present, parseable timestamp whose timestamp divided by
\* the bin width is b; irrelevant messages and messages with a missing or
\* unparseable timestamp add nothing, and the histogram is built all the
\* same.
C17_HistCountsRelevantParseable ==
    pc \in {"hist", "peaks", "spans", "selected"} =>
        /\ \A b \in 0..MaxBucket :
               CtrGet(hist, b) = Cardinality({i \in DOMAIN tweets : CountsFor(tweets[i], b)})
        /\ \A i \in DOMAIN hist :
               hist[i].key \in 0..MaxBucket /\ hist[i].n >= 1

\* C17 witness: of three messages one is counted, one is irrelevant and one
\* relevant one has an unparseable timestamp.
C17_Witness ==
    /\ pc = "hist"
    /\ Len(tweets) = 3
    /\ CtrTotal(hist) = 1
    /\ \E i \in DOMAIN tweets :
           KeywordMatch(tweets[i].text) /\ tweets[i].timestamp_ms.k = "bad"
    /\ \E i \in DOMAIN tweets :
           ~KeywordMatch(tweets[i].text) /\ tweets[i].timestamp_ms.k = "int"


\* ---- C18..C20: the stages on empty, malformed and mis-shaped input
EmptyList == JsonList(<<>>)

Raised == pc = "raised"

Aborted == pc \in {"raised", "exit"}

C19_StagesNeverRaiseOnARecord == IsList(input_json) => ~Raised

ExpansionsIn(win) ==
    {n \in DOMAIN peaks :
        Contains(win, <<peaks[n] - window_min, peaks[n] + window_min>>)}

\* C23: two expansions are merged exactly when the later one starts at or
\* before the earlier one's end + 1: consecutive windows leave at least one
\* bucket uncovered between them, two expansions that touch or overlap lie in
\* the same window, and a window's end is the largest end of the expansions
\* merged into it (its start the smallest start).
C23_MergeExactlyWhenAdjacentOrOverlapping ==
    pc = "spans" =>
        /\ \A i \in DOMAIN spans :
              i < Len(spans) => spans[i + 1][1] > spans[i][2] + 1
        /\ \A m, n \in DOMAIN peaks :
              (peaks[m] <= peaks[n]
                    /\ peaks[n] - window_min <= peaks[m] + window_min + 1)
                 => \E i \in DOMAIN spans : {m, n} \subseteq ExpansionsIn(spans[i])
        /\ \A i \in DOMAIN spans :
              /\ ExpansionsIn(spans[i]) # {}
              /\ \E n \in ExpansionsIn(spans[i]) :
                    spans[i][2] = peaks[n] + window_min
              /\ \E n \in ExpansionsIn(spans[i]) :
                    spans[i][1] = peaks[n] - window_min

\* C23 witness: the expansions [-1, 1] and [2, 4] are adjacent, not
\* overlapping, and come out as the one window [-1, 4].
C23_Witness ==
    /\ pc = "spans"
    /\ window_min = 1
    /\ peaks = <<3, 0>>
    /\ spans = <<<<-1, 4>>>>


\* ---- C21
\* a Counter as a mapping: its entries without their order
CounterMap(c) == {c[i] : i \in DOMAIN c}

VariantsMap(v) == {[key |-> v[i].key, ctr |-> CounterMap(v[i].ctr)] : i \in DOMAIN v}

\* C21: however the messages are dealt out to the workers, in whatever order
\* each worker processes its texts and the workers' tables are added up, the
\* merged normalized-phrase -> count table and the per-variant counts are
\* those of processing the message list sequentially.
C21_MergedTablesEqualSequential ==
    pc = "merged" =>
        LET seq == SequentialTables(NoTables, input_json.v)
        IN /\ CounterMap(pool.freq) = CounterMap(seq.freq)
           /\ VariantsMap(pool.variants) = VariantsMap(seq.variants)

\* C21 witness: both workers have counted "best best", in different
\* spellings, and the pool holds the count 3.
C21_Witness ==
    /\ pc = "merged"
    /\ Len(input_json.v) = 3
    /\ \A w \in 1..Workers : w <= 2 => tables[w].freq # <<>>
    /\ \E i \in DOMAIN pool.freq : pool.freq[i].n = 3
    /\ \E i \in DOMAIN pool.variants : Len(pool.variants[i].ctr) = 2


\* ---- C22, C24, C25: the election over a stored candidate list
\* the reorderings of a list
Reorderings(s) ==
    {[i \in DOMAIN s |-> s[f[i]]] :
        f \in {g \in [DOMAIN s -> DOMAIN s] : \A i, j \in DOMAIN s : i # j => g[i] # g[j]}}

\* the record of ws for award a, if there is one
RecordsFor(ws, a) == {ws[i] : i \in {j \in DOMAIN ws : ws[j].award = a}}

\* no two entities of a Counter have the same count
NoEqualCounts(ctr) == \A i, j \in DOMAIN ctr : i # j => ctr[i].n # ctr[j].n

\* C22 as stated: the election result is the same for every order in which
\* the same candidates are replayed.
C22_ResultSameForEveryOrder ==
    pc = "written" =>
        \A cs \in Reorderings(candidates) :
            ElectionOf(cs, variant_map) = winners

\* the fields of a result that do not name an entity
CountsOfRecord(r) ==
    [award |-> r.award, votes_for_winner |-> r.votes_for_winner,
     total_votes_for_award |-> r.total_votes_for_award,
     winner_share |-> r.winner_share, low_confidence |-> r.low_confidence]

\* C22, amended: the result is a function of the candidate list; replayed in
\* another order the same candidates give the same categories with the same
\* vote counts, share and flag, and the same winner and runner-ups for every
\* category in which no two entities have equal counts.
C22_ResultSameUpToTies ==
    pc = "written" =>
        /\ winners = ElectionOf(candidates, variant_map)
        /\ \A cs \in Reorderings(candidates) :
              LET other == ElectionOf(cs, variant_map)
              IN /\ [i \in DOMAIN other |-> CountsOfRecord(other[i])]
                       = [i \in DOMAIN winners |-> CountsOfRecord(winners[i])]
                 /\ \A i \in DOMAIN votes :
                       NoEqualCounts(votes[i].ctr) =>
                          RecordsFor(other, unify_dash_readable(votes[i].award))
                             = RecordsFor(winners, unify_dash_readable(votes[i].award))

\* C22 witness: two awards, one of them with a 2:1 vote and a runner-up,
\* the candidates of the two awards interleaved.
C22_Witness ==
    /\ pc = "written"
    /\ Len(winners) = 2
    /\ \E i \in DOMAIN winners :
          winners[i].votes_for_winner = 2 /\ Len(winners[i].runner_up) = 1
    /\ candidates[1].award_name # candidates[2].award_name
    /\ \A i \in DOMAIN votes : NoEqualCounts(votes[i].ctr)


\* the candidates of list cs that vote in the category written as award a,
\* as the positions they have in cs
VotersOf(cs, vmap, a) ==
    {i \in DOMAIN cs :
        LET award_raw == OrEmpty(cs[i].award_name)
            award == canonicalize_award(award_raw, vmap)
        IN /\ award_raw # <<>>
           /\ LowerAll(award_raw) # UNRECOGNIZABLE
           /\ OrEmpty(cs[i].subject) # <<>>
           /\ award # <<>>
           /\ unify_dash_readable(award) = a}

EntityAt(cs, i) == normalize_person(OrEmpty(cs[i].subject))

VoteCount(cs, vmap, a, e) ==
    Cardinality({i \in VotersOf(cs, vmap, a) : EntityAt(cs, i) = e})

FirstVote(cs, vmap, a, e) ==
    CHOOSE i \in VotersOf(cs, vmap, a) :
        /\ EntityAt(cs, i) = e
        /\ \A j \in VotersOf(cs, vmap, a) : EntityAt(cs, j) = e => i <= j

EntitiesOf(cs, vmap, a) == {EntityAt(cs, i) : i \in VotersOf(cs, vmap, a)}

\* the entities with the maximum vote count in the category
TopEntities(cs, vmap, a) ==
    {e \in EntitiesOf(cs, vmap, a) :
        \A d \in EntitiesOf(cs, vmap, a) :
            VoteCount(cs, vmap, a, d) <= VoteCount(cs, vmap, a, e)}

\* C24: the winner of a category is, among the entities with the maximum
\* vote count, the one whose first vote comes first in the candidate list;
\* when one entity alone has the maximum, every reordering of the candidate
\* list elects it.
C24_TieGoesToEarliestFirstVote ==
    pc = "written" =>
        \A k \in DOMAIN winners :
            LET a == winners[k].award
                top == TopEntities(candidates, variant_map, a)
            IN /\ winners[k].winner \in top
               /\ \A e \in top :
                     FirstVote(candidates, variant_map, a, winners[k].winner)
                        <= FirstVote(candidates, variant_map, a, e)
               /\ Cardinality(top) = 1 =>
                     \A cs \in Reorderings(candidates) :
                         \A r \in RecordsFor(ElectionOf(cs, variant_map), a) :
                             r.winner = winners[k].winner

\* C24 witness: Cy and Ben tie 2:2 in one category; Cy's first vote is the
\* first candidate, Ben's the second, and Cy is elected.
C24_Witness ==
    /\ pc = "written"
    /\ Len(candidates) = 4
    /\ Len(winners) = 1
    /\ winners[1].winner = <<"Cy">>
    /\ winners[1].votes_for_winner = 2
    /\ winners[1].total_votes_for_award = 4
    /\ candidates[2].subject = Str(<<"Ben">>)


\* the candidates with a non-empty award that is not "unrecognizable award"
\* and a non-empty subject
Usable(cs) ==
    {i \in DOMAIN cs :
        /\ OrEmpty(cs[i].award_name) # <<>>
        /\ LowerAll(OrEmpty(cs[i].award_name)) # UNRECOGNIZABLE
        /\ OrEmpty(cs[i].subject) # <<>>}

\* those of them whose canonical award is not empty either
Surviving(cs, vmap) ==
    {i \in Usable(cs) : canonicalize_award(OrEmpty(cs[i].award_name), vmap) # <<>>}

RECURSIVE SumOfTotals(_)
SumOfTotals(ws) ==
    IF ws = <<>> THEN 0
    ELSE Head(ws).total_votes_for_award + SumOfTotals(Tail(ws))

\* each result's total is the sum of its category's vote counts, the
\* winner's votes lie between 1 and the total, and there is one result per
\* category voted for
ResultsTallyVotes ==
    /\ Len(winners) = Len(votes)
    /\ \A k \in DOMAIN winners :
          /\ 1 <= winners[k].votes_for_winner
          /\ winners[k].votes_for_winner <= winners[k].total_votes_for_award
          /\ \E i \in DOMAIN votes :
                /\ unify_dash_readable(votes[i].award) = winners[k].award
                /\ CtrTotal(votes[i].ctr) = winners[k].total_votes_for_award
                /\ winners[k].total_votes_for_award
                      = Cardinality(VotersOf(candidates, variant_map, winners[k].award))

\* C25 as stated: ... and the totals of all results add up to the number of
\* candidates with a non-empty, recognizable award and a non-empty subject.
C25_TotalsSumToUsableCandidates ==
    pc = "written" =>
        /\ ResultsTallyVotes
        /\ SumOfTotals(winners) = Cardinality(Usable(candidates))

\* C25, amended: ... the totals of all results add up to the number of
\* candidates with a non-empty, recognizable award, a non-empty subject and
\* a non-empty canonical award.
C25_TotalsSumToSurvivingCandidates ==
    pc = "written" =>
        /\ ResultsTallyVotes
        /\ SumOfTotals(winners) = Cardinality(Surviving(candidates, variant_map))
        /\ \A i \in DOMAIN candidates :
              i \notin Surviving(candidates, variant_map) =>
                 \A k \in DOMAIN winners :
                     i \notin VotersOf(candidates, variant_map, winners[k].award)

\* C25 witness: four candidates, one of an award the map gives an empty
\* canonical name, one with an empty subject, two counted.
C25_Witness ==
    /\ pc = "written"
    /\ Len(candidates) = 4
    /\ Cardinality(Usable(candidates)) = 3
    /\ Cardinality(Surviving(candidates, variant_map)) = 2
    /\ SumOfTotals(winners) = 2
    /\ Len(winners) = 1


\* the two tables have the same keys and every phrase's frequency is the
\* sum of its variants' counts
TablesAgree(freq, variants) ==
    /\ {freq[i].key : i \in DOMAIN freq} = {variants[i].key : i \in DOMAIN variants}
    /\ \A i \in DOMAIN freq :
          freq[i].n = CtrTotal(VariantsOf(variants, freq[i].key))

\* what one call of generate_from_text does to the tables: as many
\* phrases recorded as candidates returned, and nothing touched when no
\* candidate is returned
CallRecordsWhatItEmits ==
    calls' = calls + 1 =>
        /\ Len(cands') <= 1
        /\ CtrTotal(AWARD_FREQ') = CtrTotal(AWARD_FREQ) + Len(cands')
        /\ cands' = <<>> =>
              AWARD_FREQ' = AWARD_FREQ /\ AWARD_VARIANTS' = AWARD_VARIANTS
        /\ cands' # <<>> =>
              \E i \in DOMAIN AWARD_VARIANTS' :
                 cands'[1].award_name
                    = most_common_1(AWARD_VARIANTS'[i].ctr).key

\* C26: after any sequence of generate_from_text calls every phrase's
\* AWARD_FREQ count is the sum of its AWARD_VARIANTS counts, and every call
\* adds to AWARD_FREQ exactly the candidates it emits (so the counts add up
\* to the candidates emitted so far), leaving both tables alone when it
\* emits nothing.
C26_FrequencyTablesCountEmittedCandidates ==
    /\ [](TablesAgree(AWARD_FREQ, AWARD_VARIANTS) /\ CtrTotal(AWARD_FREQ) <= calls)
    /\ [][CallRecordsWhatItEmits]_vars

\* C26 witness: two calls, both emitting a candidate of one normalized
\* phrase written in two ways.
C26_Witness ==
    /\ calls = 2
    /\ cands # <<>>
    /\ Len(AWARD_FREQ) = 1
    /\ AWARD_FREQ[1].n = 2
    /\ Len(AWARD_VARIANTS[1].ctr) = 2

\* a call that emits nothing after one that recorded a phrase
C26_SilentCallSeen ==
    calls = 2 /\ cands = <<>> /\ CtrTotal(AWARD_FREQ) = 1


\* C27: the two implementations of generate_from_text are equivalent:
\* on every text, from the same tables, the call of one returns the
\* candidate list and leaves the tables that the call of the other would.
C27_CleanAndDirtyEquivalent ==
    /\ pc = "extracted" =>
          Returned(cands, AWARD_FREQ, AWARD_VARIANTS)
             = dirty_generate_from_text(text, <<>>, <<>>)
    /\ pc = "extracted_dirty" =>
          Returned(cands, AWARD_FREQ, AWARD_VARIANTS)
             = generate_from_text(text, <<>>, <<>>)

\* the rule the text selects in candidate_pipeline_dirty: WIN_B when its
\* link phrase matches, else WIN_A; its entity side and its award side
DirtyRuleOf(t) ==
    Bind(split3(t, WIN_B), LAMBDA xb :
        IF xb # None THEN [entity |-> xb.R, award |-> xb.L]
        ELSE Bind(split3(t, WIN_A), LAMBDA xa :
                 IF xa # None THEN [entity |-> xa.L, award |-> xa.R] ELSE None))

\* the dirty implementation emitting a candidate of an award that the
\* other implementation never emits
C27_DirtyEmitsUnrecognizable ==
    /\ pc = "extracted_dirty"
    /\ cands # <<>>
    /\ cands[1].award_name = UNRECOGNIZABLE_AWARD
    /\ generate_from_text(text, <<>>, <<>>).cands = <<>>

\* on a text whose selected rule finds an entity and an award phrase the
\* two implementations do agree
C27_AgreeWhenSelectedRuleSucceeds ==
    (/\ pc \in {"extracted", "extracted_dirty"}
     /\ DirtyRuleOf(text) # None
     /\ filter_name(DirtyRuleOf(text).entity) # <<>>
     /\ extract_award_from_side(DirtyRuleOf(text).award, <<>>, <<>>).ret # None)
    => /\ generate_from_text(text, <<>>, <<>>)
             = dirty_generate_from_text(text, <<>>, <<>>)
       /\ cands # <<>>


\* how often message t occurs in a list
Occurrences(ms, t) == Cardinality({i \in DOMAIN ms : ms[i] = t})

\* how often message t was put into a window
RECURSIVE Placements(_, _)
Placements(bs, t) ==
    IF bs = <<>> THEN 0 ELSE Occurrences(Head(bs), t) + Placements(Tail(bs), t)

\* the messages the histogram counts: relevant, timestamp present and an
\* integer
Counted(t) ==
    relevant(t, include_rt) /\ t.timestamp_ms # None /\ IntParses(t.timestamp_ms)

\* the histogram counts of the buckets s..e added up
RECURSIVE HistSum(_, _, _)
HistSum(h, s, e) ==
    IF s > e THEN 0 ELSE CtrGet(h, s) + HistSum(h, s + 1, e)

\* C28: with the windows of expand_and_merge, select_tweets puts every
\* counted message into at most one window and every message of a
\* selected peak bucket into exactly one, an uncounted message into none,
\* and a window holds as many messages as the histogram counts in its
\* buckets.
C28_WindowsPartitionCountedMessages ==
    pc = "selected" =>
        /\ Len(buckets) = Len(spans)
        /\ \A i \in DOMAIN tweets :
              /\ Placements(buckets, tweets[i]) <= Occurrences(tweets, tweets[i])
              /\ ~Counted(tweets[i]) => Placements(buckets, tweets[i]) = 0
              /\ (/\ Counted(tweets[i])
                  /\ \E p \in DOMAIN peaks :
                        peaks[p] = minute_bucket(tweets[i].timestamp_ms.v, bin_ms))
                 => Placements(buckets, tweets[i]) = Occurrences(tweets, tweets[i])
        /\ \A k \in DOMAIN spans :
              Len(buckets[k]) = HistSum(hist, spans[k][1], spans[k][2])

\* C28 witness: two messages of the peak bucket in the one window, a third
\* counted message of another bucket in none.
C28_Witness ==
    /\ pc = "selected"
    /\ Len(tweets) = 3
    /\ Len(spans) = 1
    /\ Len(buckets[1]) = 2
    /\ \E i \in DOMAIN tweets :
          Counted(tweets[i]) /\ Placements(buckets, tweets[i]) = 0


\* the merged clusters whose canonical scores at least the threshold
\* against the canonical of row cluster c
ScoringClusters(ms, c, thr) ==
    {i \in DOMAIN ms : sim_score(c.canonical, ms[i].canonical) >= thr}

\* the next row cluster goes into exactly one merged cluster: the first
\* one, in creation order, that scores, or a new last one when none does
RowGoesToFirstScoringCluster ==
    (pc = "merging" /\ clusters # <<>> /\ clusters' = Tail(clusters)) =>
        \E hits \in {ScoringClusters(merged_clusters, Head(clusters), similarity)} :
           IF hits = {}
           THEN /\ Len(merged_clusters') = Len(merged_clusters) + 1
                /\ SubSeq(merged_clusters', 1, Len(merged_clusters)) = merged_clusters
                /\ merged_clusters'[Len(merged_clusters')].total = Head(clusters).total
                /\ merged_clusters'[Len(merged_clusters')].canonical
                      = Head(clusters).canonical
           ELSE /\ Len(merged_clusters') = Len(merged_clusters)
                /\ \E i \in hits :
                      /\ \A j \in hits : i <= j
                      /\ merged_clusters'[i].total
                            = merged_clusters[i].total + Head(clusters).total
                      /\ \A j \in DOMAIN merged_clusters :
                            j # i => merged_clusters'[j] = merged_clusters[j]

\* C29: greedy clustering conserves support: every row of enough support
\* and a canonical goes into exactly one merged cluster, the first in
\* creation order whose canonical scores at least the threshold, the totals
\* of the merged clusters and of the rows still to place add up to the
\* support of those rows, and rows of less support are in no cluster.
C29_ClusteringConservesSupport ==
    /\ [](pc \in {"merging", "inferred"} =>
             /\ SumTotals(merged_clusters) + SumTotals(clusters) = KeptSupport(data)
             /\ \A i \in DOMAIN clusters : clusters[i].total >= MIN_SUPPORT)
    /\ [][RowGoesToFirstScoringCluster]_vars

\* C29 witness: four rows, one of too little support, three placed into
\* two merged clusters, the second of which took none but its own row.
C29_Witness ==
    /\ pc = "merging"
    /\ clusters = <<>>
    /\ Len(data) = 4
    /\ \E i \in DOMAIN data : data[i].total_count < MIN_SUPPORT
    /\ Len(merged_clusters) = 2
    /\ Cardinality(merged_clusters[1].norm_keys) = 2
    /\ SumTotals(merged_clusters) = KeptSupport(data)
    /\ similarity = SIMILARITY_FOR_MERGE

=============================================================================
